---- MODULE Spec2Model ----
(***************************************************************************)
(* The Gmail poller of src/src/pollGmail.js: the persisted change cursor   *)
(* (last_history_id.txt), the persisted poll counter                       *)
(* (total_poll_cycles.txt), the conversation/turn directory tree, and the  *)
(* asynchronous poll cycles (fetchNewEmails) that main() starts, first     *)
(* once and then from a setInterval timer, until the duration budget's     *)
(* setTimeout calls process.exit.                                          *)
(*                                                                         *)
(* Every await of fetchNewEmails is one step of a cycle, so that cycles    *)
(* started by timer ticks interleave exactly where the event loop lets     *)
(* them.  Provider and filesystem calls that the code wraps in try/catch   *)
(* may fail; the number of incidents in one behaviour is bounded.          *)
(***************************************************************************)
EXTENDS Integers, Sequences, FiniteSets, TLC

\* ---------------------------------------------------------------- bounds
MaxMail == 2        \* messages that arrive in the mailbox
MaxCycles == 3      \* poll cycles started, over all runs of the process
MaxIncidents == 1   \* events off the plain course in one behaviour: a
                    \* failing provider or filesystem call, a timer tick
                    \* while an invocation is in flight, a budget expiry
HistBase == 8       \* the mailbox's history id when the model starts
MaxSubject == 6     \* tokens of a Subject header the classifier is given
MaxParts == 2       \* top-level parts of a message payload
MaxNested == 2      \* parts nested in one top-level part
MaxEntries == 2     \* entries of one directory of an attachments folder
MaxDirents == 2     \* entries a conversation folder holds to begin with
MaxTurns == 2       \* turn directories made in one conversation folder
MaxTsCycles == 4    \* poll cycles of the TypeScript poller
MaxTsMail == 2      \* messages added to the mailbox the TypeScript poller polls
MaxBudgetTicks == 4 \* setInterval callbacks followed in the model of the timers
MaxWritten == 2     \* attachment files the poller writes before the listing is called

\* ---------------------------------------------------------------- values
NoFile == -1                  \* a state file that does not exist
NoData == 0                   \* part.body.data / attachmentId absent
NoConv == <<"none", 0>>       \* conversationId = null
NoBody == <<0, 0>>            \* prompt = null
UuidConv == <<"uuid", 1>>     \* a conversation id carried by a subject

\* The invocations of fetchNewEmails the model lets be in flight at once:
\* one overlap of two.
Slots == {1, 2}

\* A message part (payload.parts[i]): mimeType, body.data, filename,
\* body.attachmentId and nested parts.
Part(mime, data, fname, attId, sub) ==
    [mimeType |-> mime, data |-> data, filename |-> fname,
     attachmentId |-> attId, parts |-> sub]

\* ----------------------------------------------------------- the subject
\* A Subject header value is a sequence of tokens, each a maximal run of
\* characters of one class (a header value holds no line terminator):
\*   <<"kw", v>>     the letters c-h-a-t-t-e-r-b-o-x, v: the letter case
\*   <<"ws", 1>>     whitespace
\*   <<"colon", 1>>  ':'
\*   <<"uuid", v>>   hex digits in groups of 8-4-4-4-12 joined by hyphens
\*   <<"hex32", v>>  32 hex digits with no hyphen
\*   <<"txt", v>>    any other characters
Kw(v) == <<"kw", v>>
Ws == <<"ws", 1>>
Colon == <<"colon", 1>>
Txt(v) == <<"txt", v>>
Hex32(v) == <<"hex32", v>>

Class(tok) == tok[1]

\* \s* : what is left of s after its leading whitespace
RECURSIVE SkipWs(_)
SkipWs(s) ==
    IF s # <<>> /\ Class(Head(s)) = "ws" THEN SkipWs(Tail(s)) ELSE s

\* String.prototype.trim
RECURSIVE DropTrailingWs(_)
DropTrailingWs(s) ==
    IF s # <<>> /\ Class(s[Len(s)]) = "ws"
    THEN DropTrailingWs(SubSeq(s, 1, Len(s) - 1)) ELSE s

Trim(s) == DropTrailingWs(SkipWs(s))

\* subject.match(chatterboxSubjectRegex) with
\*   /^chatterbox\s*(?::\s*(<8-4-4-4-12 hex>))?\s*(.*)$/i
\* ok: the regex matched; g1: match[1], NoConv when the optional group took
\* no part; g2: match[2].
NoMatch == [ok |-> FALSE, g1 |-> NoConv, g2 |-> <<>>]

\* (?::\s*(<id>))?\s*(.*)$ : afterColon is what follows ':' and its
\* whitespace (empty when there is no colon), afterKw what follows the
\* keyword and its whitespace. Without an id the optional group takes no
\* part and match[2] is all of afterKw.
MatchId(afterColon, afterKw) ==
    IF afterColon # <<>> /\ Class(Head(afterColon)) = "uuid"
    THEN [ok |-> TRUE, g1 |-> Head(afterColon), g2 |-> SkipWs(Tail(afterColon))]
    ELSE [ok |-> TRUE, g1 |-> NoConv, g2 |-> afterKw]

\* \s*(?::\s* ... : what follows the keyword and its whitespace
MatchAfterKeyword(afterKw) ==
    MatchId(IF afterKw # <<>> /\ Class(Head(afterKw)) = "colon"
            THEN SkipWs(Tail(afterKw)) ELSE <<>>,
            afterKw)

\* (mutant) the regex without its ^ anchor: the keyword is found anywhere
RECURSIVE MatchUnanchored(_)
MatchUnanchored(subject) ==
    IF subject = <<>> THEN NoMatch
    ELSE IF Class(Head(subject)) = "kw"
         THEN MatchAfterKeyword(SkipWs(Tail(subject)))
         ELSE MatchUnanchored(Tail(subject))

Match(subject) ==
    IF subject = <<>> \/ Class(Head(subject)) # "kw" THEN NoMatch
    ELSE MatchAfterKeyword(SkipWs(Tail(subject)))

\* (mutant) every message counts as tagged
isChatterboxAlways(match) == TRUE

\* const isChatterbox = !!match
isChatterbox(match) == match.ok

\* (mutant) the title is taken as matched
TitleUntrimmed(match) == match.g2

\* title = (match[2] || '').trim()
Title(match) == Trim(match.g2)

\* conversationId = match[1] || null
ExplicitConversationId(match) == match.g1

\* let conversationId = null; let title = ''; set only if (isChatterbox)
Classified(match) ==
    IF isChatterbox(match)
    THEN [isChatterbox |-> TRUE,
          conversationId |-> ExplicitConversationId(match),
          title |-> Title(match)]
    ELSE [isChatterbox |-> FALSE, conversationId |-> NoConv, title |-> <<>>]

\* headers.find(h => h.name === 'Subject') found no header
NoHeader == << <<"absent", 0>> >>

\* the text 'N/A'
NotAvailable == << Txt(90) >>

\* getHeader('Subject'): header ? header.value : 'N/A'
getHeader(header) == IF header = NoHeader THEN NotAvailable ELSE header

\* What the classification of a subject yields.
Classify(subject) == Classified(Match(subject))

\* (mutant) the generator repeats itself
RandomUUIDRepeats(n) == <<"uuid", 100>>

\* crypto.randomUUID(): the n-th identifier generated, none of which a
\* sender's subject carries before it was generated
RandomUUID(n) == <<"uuid", 100 + n>>

\* .replace(/-/g, '')
StripHyphens(uuid) == Hex32(uuid[2])

\* title || 'Your Next Title Here'
DefaultTitle == << Txt(91), Ws, Txt(92), Ws, Txt(93), Ws, Txt(94) >>

\* sampleNextSubject = `chatterbox:${conversationId} ${title || ...}`
SampleNextSubject(conversationId, title) ==
    << Kw(1), Colon, conversationId, Ws >>
        \o (IF title = <<>> THEN DefaultTitle ELSE title)

\* A message: its Subject header, what the classifier finds in it, and
\* payload.parts.
MessageOf(subject, class, parts) ==
    [subject |-> subject,
     tagged |-> class.isChatterbox,
     conv |-> class.conversationId,
     title |-> class.title,
     parts |-> parts]

Message(subject, parts) == MessageOf(subject, Classify(subject), parts)

\* The kinds of message the mailbox may receive:
\*   1: tagged, conversation id in the subject, text/plain body and an
\*      attachment that is carried inline
\*   2: tagged, no id (one is minted), text/html body and an attachment
\*      that is fetched out of band
\*   3: not tagged (the keyword is not at the start of the subject)
Kinds ==
    << Message(<< Kw(1), Colon, UuidConv, Ws, Txt(1) >>,
               << Part("text/plain", 1, "", NoData, <<>>),
                  Part("image/png", 2, "b.png", NoData, <<>>) >>),
       Message(<< Kw(2), Ws, Txt(2) >>,
               << Part("text/html", 1, "", NoData, <<>>),
                  Part("application/pdf", NoData, "a.pdf", 7, <<>>) >>),
       Message(<< Txt(3), Ws, Kw(1) >>,
               << Part("text/plain", 1, "", NoData, <<>>) >>) >>

KindIds == 1..Len(Kinds)

\* ------------------------------------------------------- history id order
\* History ids are decimal strings (the provider's historyId, the trimmed
\* content of last_history_id.txt); the model keeps the number and
\* compares the way JavaScript compares two strings.
RECURSIVE Digits(_)
Digits(n) == IF n < 10 THEN <<n>> ELSE Append(Digits(n \div 10), n % 10)

RECURSIVE LexGT(_, _)
LexGT(s, t) ==
    IF s = <<>> THEN FALSE
    ELSE IF t = <<>> THEN TRUE
    ELSE IF Head(s) # Head(t) THEN Head(s) > Head(t)
    ELSE LexGT(Tail(s), Tail(t))

\* h.id > maxHistoryId, both strings
StrGT(a, b) == LexGT(Digits(a), Digits(b))

\* ------------------------------------------------------------- variables
VARIABLES
    mailbox,      \* provider: kind of each message, message id = index
    history,      \* provider: change records, record j has id HistBase + j
                  \*           and messagesAdded = << history[j] >>
    cursorFile,   \* last_history_id.txt: NoFile or the history id it holds
    counterFile,  \* total_poll_cycles.txt: NoFile or the count it holds
    tree,         \* interactions folder: conversation -> turn -> files
    sent,         \* confirmation emails accepted by the provider (message ids)
    mainPc,       \* main(): "first" / "polling" / "exited"
    budgetArmed,  \* pollDurationMinutes > 0
    runPollingCycleCount,
    cyc,          \* the invocations of fetchNewEmails, one per slot
    started,      \* poll cycles started so far, over all runs
    runs,         \* runs of the process so far
    faults,       \* incidents so far
    minted,       \* conversation ids minted so far (crypto.randomUUID)
    used,         \* log: turn directories handed to a materialization
    matOK,        \* log: materializations that completed without a failed write
    matBad,       \* log: messages whose fetch or materialization failed
    overlapped,   \* log: two cycles have been in flight at once
    baseline,     \* log: history id of the first baseline, 0 before it
    resynced,     \* log: an invalid-cursor reset has happened
    sender,       \* the subject a sender wrote and what the poller made of it
    extraction,   \* one message payload and what the poller extracted from it
    listing,      \* one attachments folder and what getUniqueAttachments lists
    account,      \* gmailUser, last_polled_email.txt, token.json, this start
    cursorOf,     \* log: the address whose mailbox the stored cursor is of
    numbering,    \* one conversation folder and the turn directory named in it
    authorization, \* one call of authorizeGmail and the files it reads and writes
    tsPoller,     \* the TypeScript poller: its two state files and one invocation
    budget,       \* the timers of main(): the polling interval and the duration budget
    conversation  \* one conversation folder: what the poller wrote and what the listing scans

vars == << mailbox, history, cursorFile, counterFile, tree, sent, mainPc,
           budgetArmed, runPollingCycleCount, cyc, started, runs, faults,
           minted, used, matOK, matBad, overlapped, baseline, resynced,
           sender, extraction, listing, account, cursorOf,
           numbering,
           authorization,
           tsPoller,
           budget,
           conversation >>

provider == << mailbox, history >>
stateFiles == << cursorFile, counterFile >>
process == << budgetArmed, runPollingCycleCount, started, runs >>
logs == << used, matOK, matBad, baseline, resynced >>

EmptyFn == [x \in {} |-> 0]

\* The sender's side of one exchange: the subject written, the stage
\* ("written", then "classified"), the classification, the conversation id
\* the message was filed under, and the conversation id of the
\* acknowledgment whose sample subject the sender used (NoConv for a
\* subject of the sender's own), whether that id was a generated one, and
\* the turn the acknowledged message became.
NoSender ==
    [subject |-> <<>>, stage |-> "none", isChatterbox |-> FALSE,
     explicit |-> NoConv, title |-> <<>>, conversationId |-> NoConv,
     generated |-> FALSE, existed |-> FALSE, turn |-> 0,
     follows |-> NoConv, followsGenerated |-> FALSE, followsTurn |-> 0,
     missing |-> FALSE]

\* The addresses the poller may be told to poll (lower case, as
\* toLowerCase leaves them); NoEmail: no --email argument, no
\* last_polled_email.txt.
Emails == {"a@mail", "b@mail"}
NoEmail == "none"

\* config.app.defaultPollGmailUser
DefaultPollGmailUser == "a@mail"

\* main() of the first run, started without --email and with no file
\* stored: the default address is polled and persisted, authorize() has
\* stored token.json.
\*   differs: this start named an address other than the persisted one
\*   tokenKept: authorize() found the token.json of the run before
FirstAccount ==
    [gmailUser |-> DefaultPollGmailUser, lastPolledEmail |-> DefaultPollGmailUser,
     token |-> TRUE, differs |-> FALSE, tokenKept |-> FALSE]

\* One conversation folder on its way through the numbering of a turn:
\* the entries fs.readdir returns, the stage ("none", "listed",
\* "numbered", "made", "thrown"), nextSequenceNumber, whether readdir
\* threw, and the turn directories made so far.
NoNumbering ==
    [stage |-> "none", existingFolders |-> {}, nextSequenceNumber |-> <<>>,
     readDirErr |-> FALSE, made |-> 0]

\* A token of the token file: the account it was granted for, and the
\* access and refresh tokens; NoToken: no entry, no credentials.
NoToken == [owner |-> NoEmail, access_token |-> 0, refresh_token |-> 0]

\* The content of a token file without entries: {}.
NoTokens == [e \in Emails |-> NoToken]

\* One call of authorizeGmail(email, config): the stage ("none", "called",
\* "loaded", "refresh", "prompt", "resolved", "rejected"), the
\* credentials file ("ok", "unreadable", "malformed"), the token file
\* ("absent", "unreadable", "malformed" or "json" with its entries), the
\* token file as the call found it, tokenData, oAuth2Client.credentials,
\* the number of rl.question calls, what became of refreshAccessToken
\* ("none", "ok", "failed", "unsaved"), the message of the error thrown,
\* and the number of writes of the token file.
NoAuthorization ==
    [stage |-> "none", email |-> NoEmail, credentialsFile |-> "ok",
     tokenFile |-> [state |-> "absent", data |-> NoTokens],
     before |-> [state |-> "absent", data |-> NoTokens],
     tokenData |-> NoTokens, credentials |-> NoToken, questions |-> 0,
     refreshed |-> "none", err |-> "", written |-> 0]

\* The TypeScript poller (src/poll/pollGmail.ts): the cursor file and the
\* counter file (NoFile when absent), the messages added to the mailbox,
\* and the one invocation of fetchNewEmails: where it is ("idle", "list",
\* "wcursor", "wcounter", "unlink"), its locals lastHistoryId (NoFile for
\* null), totalPollCycles and newHistoryId, the number of entries of the
\* history it was answered, and the cycles started so far.
NoTsPoller ==
    [pc |-> "off", lastHistoryIdFile |-> NoFile, totalPollCyclesFile |-> NoFile,
     added |-> 0, lastHistoryId |-> NoFile, totalPollCycles |-> 0,
     newHistoryId |-> NoFile, entries |-> 0, cycles |-> 0, readErr |-> ""]

\* A timer that is not set.
NoTimer == -1

\* The timers of main(), with time in seconds: where main() is ("off",
\* "first", "polling", "exited"), pollDurationMinutes, pollInterval, the
\* time now, the times the interval and the duration timeout are due, the
\* time they were set, and the setInterval callbacks so far.
NoBudget ==
    [pc |-> "off", pollDurationMinutes |-> 0, pollInterval |-> 0, now |-> 0,
     intervalAt |-> NoTimer, timeoutAt |-> NoTimer, armedAt |-> 0,
     cycles |-> 0]

\* One message payload on its way through the extraction of a tagged
\* message: message.payload.parts, the mimeType and body data of the
\* payload itself, the stage ("none", "fetched", "text",
\* "html", "done"), what each traversal failed at and returned, prompt and
\* attachmentDetails, the files of the turn directory, body_text.txt, and
\* whether the confirmation was sent.
NoExtraction ==
    [parts |-> <<>>, payload |-> [mimeType |-> "", data |-> NoData],
     stage |-> "none",
     textFail |-> [fetch |-> {}, write |-> {}],
     htmlFail |-> [fetch |-> {}, write |-> {}],
     htmlRan |-> FALSE, prompt |-> NoData, attachmentDetails |-> <<>>,
     files |-> EmptyFn, body |-> NoData, acked |-> FALSE]

\* One call of getUniqueAttachments: the attachments folder of the
\* conversation (NoFolder when it does not exist), the stage ("none",
\* "called", "hashing", "returned", "thrown"), attachmentFiles and the
\* place of the loop in it, hashes, uniqueAttachments, the error caught,
\* and the places whose file could not be read.
NoFolder == << [name |-> "", isDirectory |-> FALSE] >>

NoListing ==
    [stage |-> "none", folder |-> NoFolder, attachmentFiles |-> <<>>,
     pos |-> 0, hashes |-> {}, uniqueAttachments |-> <<>>, err |-> "",
     unread |-> {}]

\* One conversation folder <interactionsBaseFolder>/<conversationId>: the
\* turn directories the poller made, each with its attachment files by
\* name, the entries of the subfolder "attachments" (NoFolder when there
\* is none), how many files the poller wrote, and whether
\* getUniqueAttachments has been called for the conversation.
NoConversation ==
    [turns |-> EmptyFn, attachments |-> NoFolder, written |-> 0,
     listed |-> FALSE]

\* ------------------------------------------------------------ the cycle
\* The locals of one invocation of fetchNewEmails, and what it has done.
IdleCycle ==
    [pc |-> "idle", no |-> 0, run |-> 0,
     lastHistoryId |-> 0, maxHistoryId |-> 0, total |-> 0,
     currentHistoryId |-> 0,
     newMessages |-> <<>>, i |-> 0,
     conv |-> NoConv, next |-> 0, prompt |-> NoBody, details |-> <<>>,
     listed |-> FALSE, fetched |-> {}, turns |-> {}, acks |-> {},
     failed |-> {}, wrote |-> NoFile, counted |-> NoFile, err |-> "",
     totalRead |-> 0, greatest |-> 0, unsent |-> {},
     cursorRead |-> "none", cursorOf |-> NoEmail]

Active(k) == cyc[k].pc # "idle"

\* The invocations that have work left: "return" is an invocation whose
\* last await is over and whose promise is about to resolve.
InFlight == {k \in Slots : cyc[k].pc \notin {"idle", "return"}}

\* The provider's current history id (users.getProfile).
ProviderHistoryId == HistBase + Len(history)

\* (mutant) a failing read is not caught: the caller is left without a
\* value
readLastHistoryIdUncaught(file, readFails) ==
    IF file = NoFile THEN 0 ELSE IF readFails THEN NoFile ELSE file

\* readLastHistoryId: the content of the file; '0' when the file does not
\* exist and when fs.readFile fails (readFails)
readLastHistoryId(file, readFails) ==
    IF file = NoFile \/ readFails THEN 0 ELSE file

\* readTotalPollCycles: 0 when the file does not exist
readTotalPollCycles(file) == IF file = NoFile THEN 0 ELSE file

\* What became of the read of the cursor file.
CursorRead(file, readFails) ==
    IF file = NoFile THEN "missing" ELSE IF readFails THEN "error" ELSE "ok"

\* The counter fetchNewEmails starts from: at least 1, at least the
\* number of the poll in this run.
AdjustedTotal(total, run) ==
    IF total = 0 THEN (IF run > 1 THEN run ELSE 1)
    ELSE IF run > total THEN run ELSE total

\* The locals of fetchNewEmails when lastHistoryId has been read.
Begun(n, run, last, total) ==
    [IdleCycle EXCEPT
          !.pc = IF last = 0 THEN "profile" ELSE "list",
          !.no = n, !.run = run,
          !.lastHistoryId = last, !.maxHistoryId = last,
          !.total = AdjustedTotal(total, run),
          !.totalRead = total]

\* fetchNewEmails up to its first provider call: read the cursor and the
\* counter, initialise maxHistoryId, adjust the counter.  cursor and
\* counter are the two files as the invocation finds them, owner the
\* address the cursor was stored for.
BeginCycle(n, run, cursor, counter, readFails, owner) ==
    [Begun(n, run, readLastHistoryId(cursor, readFails),
           readTotalPollCycles(counter))
       EXCEPT !.cursorRead = CursorRead(cursor, readFails),
              !.cursorOf = IF cursor = NoFile \/ readFails THEN NoEmail
                           ELSE owner]

Init ==
    /\ mailbox = <<>>
    /\ history = <<>>
    /\ cursorFile = NoFile
    /\ counterFile = NoFile
    /\ tree = EmptyFn
    /\ sent = {}
    /\ mainPc = "first"
    /\ budgetArmed \in BOOLEAN
    /\ runPollingCycleCount = 1
    /\ cyc = [k \in Slots |->
                IF k = 1 THEN BeginCycle(1, 1, NoFile, NoFile, FALSE, NoEmail)
                ELSE IdleCycle]
    /\ started = 1
    /\ runs = 1
    /\ faults = 0
    /\ minted = 0
    /\ used = {}
    /\ matOK = {}
    /\ matBad = {}
    /\ overlapped = FALSE
    /\ baseline = 0
    /\ resynced = FALSE
    /\ sender = NoSender
    /\ extraction = NoExtraction
    /\ listing = NoListing
    /\ account = FirstAccount
    /\ cursorOf = NoEmail
    /\ numbering = NoNumbering
    /\ authorization = NoAuthorization
    /\ tsPoller = NoTsPoller
    /\ budget = NoBudget
    /\ conversation = NoConversation

\* ------------------------------------------------- processMessageParts
\* The attachment list and the body the traversal returns, and the files
\* it writes, in order.  fetchFail: the attachment ids whose out-of-band
\* fetch fails; writeFail: the file names whose fs.writeFile fails.
NoParts == [prompt |-> NoData, attachments |-> <<>>, writes |-> <<>>,
            unsaved |-> {}]

RECURSIVE processMessageParts(_, _, _, _, _)
processMessageParts(parts, mimeType, save, fetchFail, writeFail) ==
    IF parts = <<>> THEN NoParts
    ELSE
      LET part == Head(parts)
          direct == IF part.mimeType = mimeType /\ part.data # NoData
                    THEN part.data ELSE NoData
          isAtt == part.filename # ""
          skipped == /\ isAtt /\ part.data = NoData
                     /\ part.attachmentId # NoData
                     /\ part.attachmentId \in fetchFail
          attachmentData ==
              IF ~isAtt THEN NoData
              ELSE IF part.data # NoData THEN part.data
              ELSE IF part.attachmentId # NoData /\ ~skipped
                   THEN part.attachmentId
              ELSE NoData
          hasAtt == attachmentData # NoData
          saved == hasAtt /\ save /\ part.filename \notin writeFail
          own == IF hasAtt
                 THEN << [filename |-> part.filename, data |-> attachmentData] >>
                 ELSE <<>>
          nested == IF skipped THEN NoParts
                    ELSE processMessageParts(part.parts, mimeType, save,
                                             fetchFail, writeFail)
          rest == processMessageParts(Tail(parts), mimeType, save,
                                      fetchFail, writeFail)
          here == IF nested.prompt # NoData THEN nested.prompt ELSE direct
      IN [prompt |-> IF rest.prompt # NoData THEN rest.prompt ELSE here,
          attachments |-> own \o nested.attachments \o rest.attachments,
          writes |-> (IF saved THEN own ELSE <<>>)
                       \o nested.writes \o rest.writes,
          unsaved |-> (IF hasAtt /\ save /\ ~saved
                       THEN {part.filename} ELSE {})
                        \cup nested.unsaved \cup rest.unsaved]

\* What a traversal may ask the provider and the disk for.
RECURSIVE AttachmentIds(_)
AttachmentIds(parts) ==
    IF parts = <<>> THEN {}
    ELSE LET part == Head(parts)
         IN (IF part.filename # "" /\ part.data = NoData
                  /\ part.attachmentId # NoData
             THEN {part.attachmentId} ELSE {})
            \cup AttachmentIds(part.parts) \cup AttachmentIds(Tail(parts))

RECURSIVE FileNames(_)
FileNames(parts) ==
    IF parts = <<>> THEN {}
    ELSE LET part == Head(parts)
         IN (IF part.filename # "" THEN {part.filename} ELSE {})
            \cup FileNames(part.parts) \cup FileNames(Tail(parts))

\* ------------------------------------------------------------- the disk
\* A turn directory: body_text.txt (NoBody when absent) and the attachment
\* files by name.
NewTurn == [body |-> NoBody, files |-> EmptyFn]

ConvExists(c) == c \in DOMAIN tree
TurnExists(c, t) == ConvExists(c) /\ t \in DOMAIN tree[c]

\* fs.mkdir(dir, {recursive: true}): creates what is missing, keeps what exists
MkdirConv(c) ==
    [x \in DOMAIN tree \cup {c} |-> IF x \in DOMAIN tree THEN tree[x] ELSE EmptyFn]

MkdirTurn(c, t) ==
    [x \in DOMAIN tree \cup {c} |->
        LET old == IF x \in DOMAIN tree THEN tree[x] ELSE EmptyFn
        IN IF x # c THEN old
           ELSE [y \in DOMAIN old \cup {t} |->
                    IF y \in DOMAIN old THEN old[y] ELSE NewTurn]]

\* fs.writeFile of each attachment, in order (a later write of the same
\* name replaces the earlier one)
RECURSIVE WriteFiles(_, _, _)
WriteFiles(files, m, writes) ==
    IF writes = <<>> THEN files
    ELSE LET w == Head(writes)
             put == [x \in DOMAIN files \cup {w.filename} |->
                       IF x = w.filename THEN << m, w.data >> ELSE files[x]]
         IN WriteFiles(put, m, Tail(writes))

\* The names readdir returns that are directories and match /^\d{3}$/
NumberedFolders(c) == {t \in DOMAIN tree[c] : t >= 0 /\ t <= 999}

SetMax(S) == CHOOSE x \in S : \A y \in S : y <= x

\* nextSequenceNumber after a successful readdir
NextSequenceNumber(c) ==
    IF NumberedFolders(c) = {} THEN 1 ELSE SetMax(NumberedFolders(c)) + 1

\* nextSequenceNumber when readdir throws: the initial '001'
FallbackSequenceNumber == 1

\* ------------------------------------------------------------ provider
\* A message arrives in the mailbox: one more change record.  The poller
\* sees the mailbox only through getProfile and history.list, so an
\* arrival is placed where one of these calls is about to observe it.
Arrive ==
    /\ Len(mailbox) < MaxMail
    /\ mainPc # "exited"
    /\ \E k \in Slots : cyc[k].pc \in {"profile", "list"}
    /\ \E kd \in KindIds :
         /\ mailbox' = Append(mailbox, kd)
         /\ history' = Append(history, Len(mailbox) + 1)
    /\ UNCHANGED << conversation, budget, tsPoller, authorization, numbering, sender, extraction, listing, account, cursorOf, stateFiles, tree, sent, mainPc, process, cyc,
                    faults, minted, logs, overlapped >>

\* The provider records one more change that names a message already in
\* the mailbox in its messagesAdded: a history response may then hold the
\* same message id in several records.
ChangeAgain ==
    /\ mainPc # "exited"
    /\ faults < MaxIncidents
    /\ \E k \in Slots : cyc[k].pc = "list"
    /\ \E m \in DOMAIN mailbox : history' = Append(history, m)
    /\ faults' = faults + 1
    /\ UNCHANGED << conversation, budget, tsPoller, authorization, numbering, sender, extraction, listing, account, cursorOf, mailbox, stateFiles, tree, sent, mainPc, process,
                    cyc, minted, logs, overlapped >>

\* The change records history.list returns for startHistoryId, in order.
HistorySince(startHistoryId) ==
    SelectSeq([j \in DOMAIN history |-> [id |-> HistBase + j,
                                          messagesAdded |-> << history[j] >>]],
              LAMBDA h : h.id > startHistoryId)

\* ------------------------------------------------------------ main()
\* No invocation is about to resolve.  The resolution of a promise is a
\* microtask: it runs before any timer callback and before the
\* continuation of any other await.
Settled == \A k \in Slots : cyc[k].pc # "return"

\* One more incident fits the bound.
MayFail == faults < MaxIncidents

\* What one thing going wrong adds to the incidents.
Incident(flag) == IF flag THEN 1 ELSE 0

\* The setInterval callback: runPollingCycleCount++ and a new invocation
\* of fetchNewEmails, whether or not an earlier one is still in flight.
Tick ==
    /\ mainPc = "polling"
    /\ Settled
    /\ started < MaxCycles
    /\ \E k \in Slots, readFails \in BOOLEAN :
         /\ ~Active(k)
         /\ \A j \in Slots : j < k => Active(j)
         /\ readFails => cursorFile # NoFile
         /\ cyc' = [cyc EXCEPT ![k] =
                       BeginCycle(started + 1, runPollingCycleCount + 1,
                                  cursorFile, counterFile, readFails, cursorOf)]
         /\ faults' = faults + Incident(InFlight # {}) + Incident(readFails)
         /\ faults' <= MaxIncidents
    /\ runPollingCycleCount' = runPollingCycleCount + 1
    /\ started' = started + 1
    /\ overlapped' = (overlapped \/ InFlight # {})
    /\ UNCHANGED << conversation, budget, tsPoller, authorization, numbering, sender, extraction, listing, account, cursorOf, provider,
                    stateFiles, tree, sent, mainPc, budgetArmed, runs,
                    minted, logs >>

\* The setTimeout callback of the duration budget: clearInterval and
\* process.exit(0).  Whatever fetchNewEmails was awaiting is abandoned.
BudgetExpire ==
    /\ mainPc = "polling"
    /\ Settled
    /\ budgetArmed
    /\ MayFail
    /\ mainPc' = "exited"
    /\ faults' = faults + 1
    /\ UNCHANGED << conversation, budget, tsPoller, authorization, numbering, sender, extraction, listing, account, cursorOf, provider, stateFiles, tree, sent, process, cyc,
                    minted, logs, overlapped >>

\* What may go wrong while main() starts: the read or the write of
\* last_polled_email.txt, one of the three fs.unlink calls of the clean,
\* authorize(), the read of the cursor file by the initial poll.
StartFailures ==
    {"none", "reademail", "writeemail", "unlinktoken", "unlinkcursor",
     "unlinkcounter", "authorize", "readcursor"}

\* readLastPolledEmail: the content of the file, null when it does not
\* exist or cannot be read
readLastPolledEmail(fail) ==
    IF fail = "reademail" THEN NoEmail ELSE account.lastPolledEmail

\* gmailUser after the parsing of --email
GmailUser(emailArg, stored) ==
    IF emailArg # NoEmail THEN emailArg
    ELSE IF stored # NoEmail THEN stored ELSE DefaultPollGmailUser

\* forceCleanDueToEmailChange
ForceClean(emailArg, stored) ==
    emailArg # NoEmail /\ stored # NoEmail /\ stored # emailArg

\* Whether main() calls writeLastPolledEmail(gmailUser).
WritesEmail(emailArg, stored) == emailArg # NoEmail \/ stored = NoEmail

\* if (cleanFlag || forceCleanDueToEmailChange)
Cleans(emailArg, cleanFlag, stored) == cleanFlag \/ ForceClean(emailArg, stored)

\* The clean block ends main(): an explicit --clean without a change of
\* address returns, a failing unlink is process.exit(1).
CleanEnds(emailArg, cleanFlag, fail, stored) ==
    /\ Cleans(emailArg, cleanFlag, stored)
    /\ \/ fail \in {"unlinktoken", "unlinkcursor", "unlinkcounter"}
       \/ ~ForceClean(emailArg, stored)

\* main() reaches the initial poll.
Polls(emailArg, cleanFlag, fail, stored) ==
    ~CleanEnds(emailArg, cleanFlag, fail, stored) /\ fail # "authorize"

\* The three files after the clean block: each is unlinked unless an
\* earlier unlink, or its own, has thrown.
TokenAfter(clean, fail) ==
    IF clean /\ fail # "unlinktoken" THEN FALSE ELSE account.token

CursorAfter(clean, fail) ==
    IF clean /\ fail \notin {"unlinktoken", "unlinkcursor"}
    THEN NoFile ELSE cursorFile

CounterAfter(clean, fail) ==
    IF clean /\ fail \notin {"unlinktoken", "unlinkcursor", "unlinkcounter"}
    THEN NoFile ELSE counterFile

\* The failure is one of a call this start makes.
Applies(emailArg, cleanFlag, fail, stored) ==
    CASE fail = "none" -> TRUE
      [] fail = "reademail" -> account.lastPolledEmail # NoEmail
      [] fail = "writeemail" -> WritesEmail(emailArg, stored)
      [] fail = "unlinktoken" ->
            Cleans(emailArg, cleanFlag, stored) /\ account.token
      [] fail = "unlinkcursor" ->
            Cleans(emailArg, cleanFlag, stored) /\ cursorFile # NoFile
      [] fail = "unlinkcounter" ->
            Cleans(emailArg, cleanFlag, stored) /\ counterFile # NoFile
      [] fail = "authorize" -> ~CleanEnds(emailArg, cleanFlag, "none", stored)
      [] fail = "readcursor" ->
            /\ ~CleanEnds(emailArg, cleanFlag, "none", stored)
            /\ CursorAfter(Cleans(emailArg, cleanFlag, stored), "none") # NoFile

\* main() from the parsing of --email to the call of the initial poll.
Start(emailArg, cleanFlag, fail, stored) ==
    /\ Applies(emailArg, cleanFlag, fail, stored)
    /\ account' =
         [gmailUser |-> GmailUser(emailArg, stored),
          lastPolledEmail |->
              IF WritesEmail(emailArg, stored) /\ fail # "writeemail"
              THEN GmailUser(emailArg, stored) ELSE account.lastPolledEmail,
          token |-> \/ Polls(emailArg, cleanFlag, fail, stored)
                    \/ TokenAfter(Cleans(emailArg, cleanFlag, stored), fail),
          differs |-> /\ emailArg # NoEmail
                      /\ account.lastPolledEmail \notin {NoEmail, emailArg},
          tokenKept |-> /\ Polls(emailArg, cleanFlag, fail, stored)
                        /\ TokenAfter(Cleans(emailArg, cleanFlag, stored), fail)]
    /\ cursorFile' = CursorAfter(Cleans(emailArg, cleanFlag, stored), fail)
    /\ counterFile' = CounterAfter(Cleans(emailArg, cleanFlag, stored), fail)
    /\ cursorOf' = IF cursorFile' = NoFile THEN NoEmail ELSE cursorOf
    /\ IF Polls(emailArg, cleanFlag, fail, stored)
       THEN /\ mainPc' = "first"
            /\ budgetArmed' \in BOOLEAN
            /\ runPollingCycleCount' = 1
            /\ cyc' = [k \in Slots |->
                         IF k = 1
                         THEN BeginCycle(started + 1, 1, cursorFile',
                                         counterFile', fail = "readcursor",
                                         cursorOf')
                         ELSE IdleCycle]
            /\ started' = started + 1
       ELSE /\ mainPc' = "exited"
            /\ cyc' = [k \in Slots |-> IdleCycle]
            /\ UNCHANGED << budgetArmed, runPollingCycleCount, started >>
    /\ faults' = faults + Incident(fail # "none")

\* The poller is run again: main() starts over with the files the last
\* run left, with or without --email and --clean, and awaits its initial
\* poll.
Restart ==
    /\ mainPc = "exited"
    /\ started < MaxCycles
    /\ runs < MaxCycles
    /\ \E emailArg \in Emails \cup {NoEmail}, cleanFlag \in BOOLEAN,
          fail \in StartFailures :
         /\ fail # "none" => MayFail
         /\ Start(emailArg, cleanFlag, fail, readLastPolledEmail(fail))
    /\ runs' = runs + 1
    /\ UNCHANGED << conversation, budget, tsPoller, authorization, numbering, sender, extraction, listing, provider, tree, sent,
                    minted, logs, overlapped >>

\* ----------------------------------------------------- fetchNewEmails
Running(k, pc) ==
    /\ mainPc # "exited"
    /\ cyc[k].pc = pc
    /\ pc = "return" \/ Settled

\* fetchNewEmails returns.  main() awaits only its initial poll, and sets
\* up the interval and the duration timeout when that poll has returned.
Return(k) ==
    /\ cyc' = [cyc EXCEPT ![k] = IdleCycle]
    /\ mainPc' = IF mainPc = "first" THEN "polling" ELSE mainPc

\* (mutant) the loop moves on by two messages
ContinueSkipping(c) ==
    IF c.i + 1 < Len(c.newMessages)
    THEN [c EXCEPT !.pc = "get", !.i = c.i + 2, !.conv = NoConv, !.next = 0,
                   !.prompt = NoBody, !.details = <<>>]
    ELSE [c EXCEPT !.pc = "pcursor", !.conv = NoConv, !.next = 0,
                   !.prompt = NoBody, !.details = <<>>]

\* The loop over newMessages moves on: the next message, or the code
\* after the loop.
Continue(c) ==
    IF c.i < Len(c.newMessages)
    THEN [c EXCEPT !.pc = "get", !.i = c.i + 1, !.conv = NoConv, !.next = 0,
                   !.prompt = NoBody, !.details = <<>>]
    ELSE [c EXCEPT !.pc = "pcursor", !.conv = NoConv, !.next = 0,
                   !.prompt = NoBody, !.details = <<>>]

\* (mutant) a failed send ends the cycle
SendFailedAborts(c) == [c EXCEPT !.pc = "return", !.err = "transient"]

\* catch (sendErr) in sendConfirmationEmail: logged, and the caller goes on.
SendFailed(c) == Continue(c)

\* (mutant) an error of one message ends the cycle
GiveUpAborts(c) ==
    [c EXCEPT !.pc = "return", !.failed = c.failed \cup {c.newMessages[c.i]}]

\* catch (msgErr): the message is logged and given up for this cycle.
GiveUp(c) == Continue([c EXCEPT !.failed = c.failed \cup {c.newMessages[c.i]}])

\* (mutant) no error resets the cursor
CatchPcNoReset(err) == "return"

\* (mutant) every error resets the cursor
CatchPcAlwaysReset(err) == "reset"

\* The outer catch (err): an error of getProfile or history.list.
\*   "auth": err.code === 401; "invalid": the message names an invalid
\*   startHistoryId; "transient": anything else.
CatchPc(err) ==
    IF err = "auth" THEN "return"
    ELSE IF err = "invalid" THEN "reset"
    ELSE "return"

\* lastHistoryId === '0': await gmail.users.getProfile
Profile(k) ==
    /\ Running(k, "profile")
    /\ \/ /\ cyc' = [cyc EXCEPT ![k].pc = "bcursor",
                                ![k].currentHistoryId = ProviderHistoryId]
          /\ UNCHANGED faults
       \/ /\ MayFail
          /\ \E err \in {"transient", "auth"} :
               cyc' = [cyc EXCEPT ![k].pc = CatchPc(err), ![k].err = err]
          /\ faults' = faults + 1
    /\ UNCHANGED << conversation, budget, tsPoller, authorization, numbering, sender, extraction, listing, account, cursorOf, provider, stateFiles, tree, sent, mainPc, process,
                    minted, logs, overlapped >>

\* (mutant) the baseline stores the cursor it started from
BaselineCursorStale(c) == c.lastHistoryId

\* The cursor the baseline branch stores.
BaselineCursorValue(c) == c.currentHistoryId

\* await writeLastHistoryId(currentHistoryId)
BaselineCursor(k) ==
    /\ Running(k, "bcursor")
    /\ cursorFile' = BaselineCursorValue(cyc[k])
    /\ cyc' = [cyc EXCEPT ![k].pc = "counter",
                          ![k].wrote = BaselineCursorValue(cyc[k])]
    /\ baseline' = IF baseline = 0 THEN BaselineCursorValue(cyc[k]) ELSE baseline
    /\ cursorOf' = account.gmailUser
    /\ UNCHANGED << conversation, budget, tsPoller, authorization, numbering, sender, extraction, listing, account, provider, counterFile, tree, sent, mainPc, process,
                    faults, minted, used, matOK, matBad, resynced, overlapped >>

\* maxHistoryId after history.forEach
RECURSIVE MaxHistoryId(_, _)
MaxHistoryId(hist, maxHistoryId) ==
    IF hist = <<>> THEN maxHistoryId
    ELSE MaxHistoryId(Tail(hist),
                      IF StrGT(Head(hist).id, maxHistoryId)
                      THEN Head(hist).id ELSE maxHistoryId)

\* newMessages after history.forEach
RECURSIVE NewMessages(_)
NewMessages(hist) ==
    IF hist = <<>> THEN <<>>
    ELSE Head(hist).messagesAdded \o NewMessages(Tail(hist))

\* What the cycle does with the answer of history.list.
AfterList(c, hist) ==
    IF hist = <<>> \/ NewMessages(hist) = <<>>
    THEN [c EXCEPT !.pc = "counter", !.listed = TRUE, !.total = c.total + 1]
    ELSE [c EXCEPT !.pc = "get", !.listed = TRUE,
                   !.newMessages = NewMessages(hist), !.i = 1,
                   !.maxHistoryId = MaxHistoryId(hist, c.maxHistoryId),
                   !.greatest = SetMax({hist[j].id : j \in DOMAIN hist})]

\* await gmail.users.history.list({startHistoryId: lastHistoryId})
List(k) ==
    /\ Running(k, "list")
    /\ \/ /\ cyc' = [cyc EXCEPT ![k] =
                        AfterList(cyc[k], HistorySince(cyc[k].lastHistoryId))]
          /\ UNCHANGED faults
       \/ /\ MayFail
          /\ \E err \in {"transient", "auth", "invalid"} :
               cyc' = [cyc EXCEPT ![k].pc = CatchPc(err), ![k].err = err]
          /\ faults' = faults + 1
    /\ UNCHANGED << conversation, budget, tsPoller, authorization, numbering, sender, extraction, listing, account, cursorOf, provider, stateFiles, tree, sent, mainPc, process,
                    minted, logs, overlapped >>

\* The cursor the invalid-startHistoryId branch stores: '0'.
ResetCursorValue == 0

\* await writeLastHistoryId('0')
Reset(k) ==
    /\ Running(k, "reset")
    /\ cursorFile' = ResetCursorValue
    /\ cyc' = [cyc EXCEPT ![k].pc = "return", ![k].wrote = ResetCursorValue]
    /\ resynced' = TRUE
    /\ UNCHANGED << conversation, budget, tsPoller, authorization, numbering, sender, extraction, listing, account, cursorOf, provider, counterFile, tree, sent, mainPc, process,
                    faults, minted, used, matOK, matBad, baseline, overlapped >>

\* The promise of fetchNewEmails resolves.
Finish(k) ==
    /\ Running(k, "return")
    /\ Return(k)
    /\ UNCHANGED << conversation, budget, tsPoller, authorization, numbering, sender, extraction, listing, account, cursorOf, provider, stateFiles, tree, sent, process, faults,
                    minted, logs, overlapped >>

\* The message the loop is at, and its kind.
Msg(c) == c.newMessages[c.i]
Kind(c) == Kinds[mailbox[Msg(c)]]

\* subject.match(chatterboxSubjectRegex): the conversation id the subject
\* carries, or a freshly generated one.
ConversationId(kind) ==
    IF kind.conv # NoConv THEN kind.conv
    ELSE StripHyphens(RandomUUID(minted + 1))

\* await gmail.users.messages.get, the classification of the subject and,
\* for a tagged message, await fs.mkdir(conversationDir, {recursive: true}).
\* A message that is not tagged is traversed with no save path and logged.
\* (Fetching a message reads nothing another invocation writes, so the
\* fetch and the mkdir that follows it are one step.)
Get(k) ==
    /\ Running(k, "get")
    /\ LET c == cyc[k]
           m == Msg(c)
           kind == Kind(c)
           got == [c EXCEPT !.fetched = c.fetched \cup {m}]
           mint == IF kind.tagged /\ kind.conv = NoConv
                   THEN minted + 1 ELSE minted
       IN \/ /\ kind.tagged
             /\ cyc' = [cyc EXCEPT ![k] =
                          [got EXCEPT !.pc = "scan",
                                      !.conv = ConversationId(kind)]]
             /\ tree' = MkdirConv(ConversationId(kind))
             /\ minted' = mint
             /\ UNCHANGED << faults, matBad >>
          \/ /\ kind.tagged
             /\ MayFail
             /\ cyc' = [cyc EXCEPT ![k] = GiveUp(got)]
             /\ minted' = mint
             /\ faults' = faults + 1
             /\ matBad' = matBad \cup {m}
             /\ UNCHANGED tree
          \/ /\ ~kind.tagged
             /\ cyc' = [cyc EXCEPT ![k] = Continue(got)]
             /\ UNCHANGED << faults, minted, matBad, tree >>
          \/ /\ MayFail
             /\ cyc' = [cyc EXCEPT ![k] = GiveUp(c)]
             /\ faults' = faults + 1
             /\ matBad' = matBad \cup {m}
             /\ UNCHANGED << minted, tree >>
    /\ UNCHANGED << conversation, budget, tsPoller, authorization, numbering, sender, extraction, listing, account, cursorOf, provider, stateFiles, sent, mainPc, process,
                    used, matOK, baseline, resynced, overlapped >>

\* await fs.readdir(conversationDir): the next sequence number, '001'
\* when the directory cannot be read.
Scan(k) ==
    /\ Running(k, "scan")
    /\ LET c == cyc[k]
       IN \/ /\ cyc' = [cyc EXCEPT ![k].pc = "mkturn",
                                   ![k].next = NextSequenceNumber(c.conv)]
             /\ UNCHANGED faults
          \/ /\ MayFail
             /\ cyc' = [cyc EXCEPT ![k].pc = "mkturn",
                                   ![k].next = FallbackSequenceNumber]
             /\ faults' = faults + 1
    /\ UNCHANGED << conversation, budget, tsPoller, authorization, numbering, sender, extraction, listing, account, cursorOf, provider, stateFiles, tree, sent, mainPc, process,
                    minted, logs, overlapped >>

\* The turn directory after a traversal has written its attachments.
SaveAttachments(dirs, c, writes) ==
    [dirs EXCEPT ![c.conv][c.next].files =
        WriteFiles(dirs[c.conv][c.next].files, Msg(c), writes)]

\* fs.writeFile(bodyFilePath, prompt, 'utf8')
SaveBody(dirs, c, prompt) ==
    [dirs EXCEPT ![c.conv][c.next].body = prompt]

\* The record of a finished materialization.
Materialized(c) ==
    [conv |-> c.conv, turn |-> c.next, msg |-> Msg(c), by |-> << c.no, c.i >>]

\* The failures one traversal may meet: the out-of-band fetches that fail
\* and, of the attachments it then holds, the writes that fail.
TraversalFailures(parts, mimeType) ==
    {f \in [fetch : SUBSET AttachmentIds(parts), write : SUBSET FileNames(parts)] :
        LET tried == processMessageParts(parts, mimeType, TRUE, f.fetch, {})
        IN f.write \subseteq {tried.attachments[x].filename :
                                x \in DOMAIN tried.attachments}}

NoFailure == [fetch |-> {}, write |-> {}]

\* (mutant) the text/html traversal runs whatever the first one found
NeedsHtmlAlways(prompt) == TRUE

\* if (!prompt): the text/plain traversal found no body
NeedsHtml(prompt) == prompt = NoData

\* The materialization of the message into its turn directory, from
\* fs.mkdir(messageContentSavePath) to sendConfirmationEmail:
\*   mkdir of the turn directory (a failure throws to catch (msgErr));
\*   processMessageParts for 'text/plain' and, if it found no body, for
\*     'text/html', each saving the attachments it meets (failed fetches
\*     and failed writes are logged inside);
\*   fs.writeFile of body_text.txt if there is a body (a failure throws);
\*   sendConfirmationEmail (a failed send is logged inside).
\* These awaits touch the files of one turn directory and the outbox only,
\* so they are one step of the invocation.
Materialize(k) ==
    /\ Running(k, "mkturn")
    /\ LET c == cyc[k]
           m == Msg(c)
           parts == Kind(c).parts
       IN \/ /\ MayFail
             /\ cyc' = [cyc EXCEPT ![k] = GiveUp(c)]
             /\ faults' = faults + 1
             /\ matBad' = matBad \cup {m}
             /\ UNCHANGED << tree, sent, used, matOK >>
          \/ \E f1 \in TraversalFailures(parts, "text/plain"),
                f2 \in TraversalFailures(parts, "text/html"),
                bodyFails \in BOOLEAN, sendFails \in BOOLEAN :
               LET textResult == processMessageParts(parts, "text/plain", TRUE,
                                                     f1.fetch, f1.write)
                   retry == NeedsHtml(textResult.prompt)
                   htmlResult == IF retry
                                 THEN processMessageParts(parts, "text/html",
                                          TRUE, f2.fetch, f2.write)
                                 ELSE NoParts
                   data == IF retry THEN htmlResult.prompt ELSE textResult.prompt
                   prompt == IF data # NoData THEN << m, data >> ELSE NoBody
                   attachmentDetails ==
                       textResult.attachments \o htmlResult.attachments
                   unsaved == textResult.unsaved \cup htmlResult.unsaved
                   writes == textResult.writes \o htmlResult.writes
                   lost == unsaved \ {writes[x].filename : x \in DOMAIN writes}
                   n == Cardinality(f1.fetch) + Cardinality(f1.write)
                        + Cardinality(f2.fetch) + Cardinality(f2.write)
                        + (IF bodyFails THEN 1 ELSE 0)
                        + (IF sendFails THEN 1 ELSE 0)
                   made == MkdirTurn(c.conv, c.next)
                   filled == SaveAttachments(
                                 SaveAttachments(made, c, textResult.writes),
                                 c, htmlResult.writes)
                   d == [c EXCEPT !.turns = c.turns \cup {m},
                                  !.prompt = prompt,
                                  !.details = attachmentDetails,
                                  !.failed = IF unsaved = {} THEN c.failed
                                             ELSE c.failed \cup {m}]
               IN /\ retry \/ f2 = NoFailure
                  /\ bodyFails => prompt # NoBody /\ ~sendFails
                  /\ faults + n <= MaxIncidents
                  /\ faults' = faults + n
                  /\ used' = used \cup {[conv |-> c.conv, turn |-> c.next,
                                         msg |-> m, by |-> << c.no, c.i >>,
                                         lost |-> lost,
                                         acked |-> ~bodyFails /\ ~sendFails,
                                         fresh |-> ~TurnExists(c.conv, c.next)]}
                  /\ IF bodyFails
                     THEN /\ tree' = filled
                          /\ cyc' = [cyc EXCEPT ![k] = GiveUp(d)]
                          /\ matBad' = matBad \cup {m}
                          /\ UNCHANGED << sent, matOK >>
                     ELSE /\ tree' = IF prompt # NoBody
                                     THEN SaveBody(filled, c, prompt)
                                     ELSE filled
                          /\ matOK' = IF unsaved = {}
                                      THEN matOK \cup {Materialized(c)}
                                      ELSE matOK
                          /\ matBad' = IF unsaved = {} THEN matBad
                                       ELSE matBad \cup {m}
                          /\ sent' = IF sendFails THEN sent ELSE sent \cup {m}
                          /\ cyc' = [cyc EXCEPT ![k] =
                                IF sendFails
                                THEN SendFailed([d EXCEPT !.unsent = d.unsent \cup {m}])
                                ELSE Continue([d EXCEPT !.acks = d.acks \cup {m}])]
    /\ UNCHANGED << conversation, budget, tsPoller, authorization, numbering, sender, extraction, listing, account, cursorOf, provider, stateFiles, mainPc, process, minted,
                    baseline, resynced, overlapped >>

\* Whether the code after the loop stores the cursor.
StoresCursor(c) == c.maxHistoryId # c.lastHistoryId

\* if (maxHistoryId !== lastHistoryId) await writeLastHistoryId(maxHistoryId);
\* totalPersistentPollCycles++
PersistCursor(k) ==
    /\ Running(k, "pcursor")
    /\ LET c == cyc[k]
       IN /\ cursorFile' = IF StoresCursor(c) THEN c.maxHistoryId ELSE cursorFile
          /\ cyc' = [cyc EXCEPT ![k].pc = "counter",
                                ![k].total = c.total + 1,
                                ![k].wrote = IF StoresCursor(c)
                                             THEN c.maxHistoryId ELSE c.wrote]
          /\ cursorOf' = IF StoresCursor(c) THEN account.gmailUser ELSE cursorOf
    /\ UNCHANGED << conversation, budget, tsPoller, authorization, numbering, sender, extraction, listing, account, provider, counterFile, tree, sent, mainPc, process,
                    faults, minted, logs, overlapped >>

\* await writeTotalPollCycles(totalPersistentPollCycles)
PersistCounter(k) ==
    /\ Running(k, "counter")
    /\ counterFile' = cyc[k].total
    /\ cyc' = [cyc EXCEPT ![k].pc = "return", ![k].counted = cyc[k].total]
    /\ UNCHANGED << conversation, budget, tsPoller, authorization, numbering, sender, extraction, listing, account, cursorOf, provider, cursorFile, tree, sent, mainPc, process,
                    faults, minted, logs, overlapped >>

Step(k) ==
    \/ Profile(k) \/ BaselineCursor(k) \/ List(k) \/ Reset(k)
    \/ Get(k) \/ Scan(k) \/ Materialize(k)
    \/ PersistCursor(k) \/ PersistCounter(k) \/ Finish(k)

Next ==
    \/ Arrive
    \/ ChangeAgain
    \/ Tick
    \/ BudgetExpire
    \/ Restart
    \/ \E k \in Slots : Step(k)

Spec == Init /\ [][Next]_vars

\* ------------------------------------------------------ a later start
\* The files a first run for the default address has left when its
\* duration budget expired after the baseline cycle: the cursor and the
\* counter stored, the address persisted, token.json in place.
InitStart ==
    /\ mailbox = <<>>
    /\ history = <<>>
    /\ cursorFile = HistBase
    /\ counterFile = 1
    /\ tree = EmptyFn
    /\ sent = {}
    /\ mainPc = "exited"
    /\ budgetArmed = TRUE
    /\ runPollingCycleCount = 1
    /\ cyc = [k \in Slots |-> IdleCycle]
    /\ started = 1
    /\ runs = 1
    /\ faults = 0
    /\ minted = 0
    /\ used = {}
    /\ matOK = {}
    /\ matBad = {}
    /\ overlapped = FALSE
    /\ baseline = HistBase
    /\ resynced = FALSE
    /\ sender = NoSender
    /\ extraction = NoExtraction
    /\ listing = NoListing
    /\ account = FirstAccount
    /\ cursorOf = DefaultPollGmailUser
    /\ numbering = NoNumbering
    /\ authorization = NoAuthorization
    /\ tsPoller = NoTsPoller
    /\ budget = NoBudget
    /\ conversation = NoConversation

SpecStart == InitStart /\ [][Next]_vars

\* =================================================================
\* One sender and one message at a time: the subject is classified, the
\* message is filed as a turn of its conversation, and the sender writes
\* the next message under the sample subject of the acknowledgment.
\* Nothing fails and nothing overlaps here; the subjects are all the token
\* sequences up to MaxSubject.
\* =================================================================
Alphabet == {Kw(1), Kw(2), Ws, Colon, UuidConv, Txt(1)}

Subjects == UNION {[1..n -> Alphabet] : n \in 0..MaxSubject}

\* The poller between two cycles, with no file written yet.
PollerAtRest ==
    /\ mailbox = <<>>
    /\ history = <<>>
    /\ cursorFile = NoFile
    /\ counterFile = NoFile
    /\ tree = EmptyFn
    /\ sent = {}
    /\ mainPc = "polling"
    /\ budgetArmed = FALSE
    /\ runPollingCycleCount = 1
    /\ cyc = [k \in Slots |-> IdleCycle]
    /\ started = 1
    /\ runs = 1
    /\ faults = 0
    /\ minted = 0
    /\ used = {}
    /\ matOK = {}
    /\ matBad = {}
    /\ overlapped = FALSE
    /\ baseline = 0
    /\ resynced = FALSE
    /\ account = FirstAccount
    /\ cursorOf = NoEmail

InitSender ==
    /\ PollerAtRest
    /\ conversation = NoConversation
    /\ budget = NoBudget
    /\ tsPoller = NoTsPoller
    /\ authorization = NoAuthorization
    /\ numbering = NoNumbering
    /\ extraction = NoExtraction
    /\ listing = NoListing
    /\ \E header \in Subjects \cup {NoHeader} :
         sender = [NoSender EXCEPT !.subject = getHeader(header),
                                   !.stage = "written",
                                   !.missing = (header = NoHeader)]

\* subject.match, the conversation id (explicit or generated) and, for a
\* tagged message, fs.mkdir(conversationDir, {recursive: true})
ClassifySubject ==
    /\ sender.stage = "written"
    /\ LET message == Message(sender.subject, <<>>)
           conversationId == IF message.tagged THEN ConversationId(message)
                             ELSE NoConv
           generated == message.tagged /\ message.conv = NoConv
       IN /\ sender' = [sender EXCEPT
                           !.stage = "classified",
                           !.isChatterbox = message.tagged,
                           !.explicit = message.conv,
                           !.title = message.title,
                           !.conversationId = conversationId,
                           !.generated = generated,
                           !.existed = message.tagged /\ ConvExists(conversationId)]
          /\ minted' = IF generated THEN minted + 1 ELSE minted
          /\ tree' = IF message.tagged THEN MkdirConv(conversationId) ELSE tree
    /\ UNCHANGED << conversation, budget, tsPoller, authorization, numbering, extraction, listing, account, cursorOf, provider, stateFiles, sent, mainPc, process, cyc, faults,
                    logs, overlapped >>

\* fs.readdir(conversationDir) and fs.mkdir(messageContentSavePath)
FileTurn ==
    /\ sender.stage = "classified"
    /\ sender.isChatterbox
    /\ LET next == NextSequenceNumber(sender.conversationId)
       IN /\ sender' = [sender EXCEPT !.stage = "filed", !.turn = next]
          /\ tree' = MkdirTurn(sender.conversationId, next)
    /\ UNCHANGED << conversation, budget, tsPoller, authorization, numbering, extraction, listing, account, cursorOf, provider, stateFiles, sent, mainPc, process, cyc, faults,
                    minted, logs, overlapped >>

\* sendConfirmationEmail, and the sender's next message under the sample
\* subject it shows.
Reply ==
    /\ sender.stage = "filed"
    /\ sender.follows = NoConv
    /\ sender' = [NoSender EXCEPT
                    !.subject = SampleNextSubject(sender.conversationId,
                                                  sender.title),
                    !.stage = "written",
                    !.follows = sender.conversationId,
                    !.followsGenerated = sender.generated,
                    !.followsTurn = sender.turn]
    /\ UNCHANGED << conversation, budget, tsPoller, authorization, numbering, extraction, listing, account, cursorOf, provider, stateFiles, tree, sent, mainPc, process, cyc,
                    faults, minted, logs, overlapped >>

NextSender == ClassifySubject \/ FileTurn \/ Reply

SpecSender == InitSender /\ [][NextSender]_vars

\* =================================================================
\* One message payload at a time: the two traversals of
\* processMessageParts, the body file and the confirmation, for every part
\* tree of up to MaxParts top-level parts with up to MaxNested parts nested
\* in one of them.  A part at position p (top-level part i: p = i, its
\* j-th nested part: p = 10 i + j) carries data p, file name "f<p>" and
\* attachment id 100 + p, so that what is extracted tells where it came
\* from.
\* =================================================================
FileName(p) == "f" \o ToString(p)

\* The parts without nested parts: a text/plain body, a text/html body, an
\* attachment carried inline, an attachment fetched out of band.
Leaves(p) ==
    { Part("text/plain", p, "", NoData, <<>>),
      Part("text/html", p, "", NoData, <<>>),
      Part("image/png", p, FileName(p), NoData, <<>>),
      Part("application/pdf", NoData, FileName(p), 100 + p, <<>>) }

\* part.parts of top-level part i: n nested parts
RECURSIVE NestedParts(_, _)
NestedParts(i, n) ==
    IF n = 0 THEN {<<>>}
    ELSE {Append(l, a) : l \in NestedParts(i, n - 1), a \in Leaves(10 * i + n)}

\* The top-level parts at position i: a leaf, a multipart container, or an
\* attached message (message/rfc822: a file name, an attachment id and the
\* parts of the message attached).
TopParts(i) ==
    Leaves(i)
    \cup UNION {{ Part("multipart/alternative", NoData, "", NoData, ch),
                  Part("message/rfc822", NoData, FileName(i), 100 + i, ch) } :
                ch \in UNION {NestedParts(i, n) : n \in 1..MaxNested}}

\* message.payload.parts: n top-level parts (none: a payload without parts)
RECURSIVE PartLists(_)
PartLists(n) ==
    IF n = 0 THEN {<<>>}
    ELSE {Append(l, a) : l \in PartLists(n - 1), a \in TopParts(n)}

Payloads == UNION {PartLists(n) : n \in 0..MaxParts}

\* message.payload.mimeType and message.payload.body.data: a payload with
\* parts is a multipart container without data of its own; a payload
\* without parts is a single-part message that carries its data itself
\* (a text/plain body, a text/html body, or nothing).
PayloadBodies(parts) ==
    IF parts # <<>>
    THEN {[mimeType |-> "multipart/mixed", data |-> NoData]}
    ELSE {[mimeType |-> "text/plain", data |-> 7],
          [mimeType |-> "text/html", data |-> 7],
          [mimeType |-> "text/plain", data |-> NoData]}

InitParts ==
    /\ PollerAtRest
    /\ conversation = NoConversation
    /\ budget = NoBudget
    /\ tsPoller = NoTsPoller
    /\ authorization = NoAuthorization
    /\ numbering = NoNumbering
    /\ sender = NoSender
    /\ listing = NoListing
    /\ \E parts \in Payloads :
       \E payload \in PayloadBodies(parts) :
         extraction = [NoExtraction EXCEPT !.parts = parts,
                                           !.payload = payload,
                                           !.stage = "fetched"]

\* The failures of one traversal that still fit the bound.
FailuresLeft(parts, mimeType) ==
    {f \in TraversalFailures(parts, mimeType) :
        faults + Cardinality(f.fetch) + Cardinality(f.write) <= MaxIncidents}

\* textResult = await processMessageParts(parts, 'text/plain', ...)
TextTraversal ==
    /\ extraction.stage = "fetched"
    /\ \E f \in FailuresLeft(extraction.parts, "text/plain") :
         LET textResult == processMessageParts(extraction.parts, "text/plain",
                                               TRUE, f.fetch, f.write)
         IN /\ extraction' = [extraction EXCEPT
                  !.stage = "text",
                  !.textFail = f,
                  !.prompt = textResult.prompt,
                  !.attachmentDetails = textResult.attachments,
                  !.files = WriteFiles(extraction.files, 1, textResult.writes)]
            /\ faults' = faults + Cardinality(f.fetch) + Cardinality(f.write)
    /\ UNCHANGED << conversation, budget, tsPoller, authorization, numbering, sender, listing, account, cursorOf, provider, stateFiles, tree, sent, mainPc,
                    process, cyc, minted, logs, overlapped >>

\* if (!prompt) htmlResult = await processMessageParts(parts, 'text/html', ...)
HtmlTraversal ==
    /\ extraction.stage = "text"
    /\ NeedsHtml(extraction.prompt)
    /\ \E f \in FailuresLeft(extraction.parts, "text/html") :
         LET htmlResult == processMessageParts(extraction.parts, "text/html",
                                               TRUE, f.fetch, f.write)
         IN /\ extraction' = [extraction EXCEPT
                  !.stage = "html",
                  !.htmlFail = f,
                  !.htmlRan = TRUE,
                  !.prompt = htmlResult.prompt,
                  !.attachmentDetails =
                      extraction.attachmentDetails \o htmlResult.attachments,
                  !.files = WriteFiles(extraction.files, 1, htmlResult.writes)]
            /\ faults' = faults + Cardinality(f.fetch) + Cardinality(f.write)
    /\ UNCHANGED << conversation, budget, tsPoller, authorization, numbering, sender, listing, account, cursorOf, provider, stateFiles, tree, sent, mainPc,
                    process, cyc, minted, logs, overlapped >>

\* if (prompt) fs.writeFile(body_text.txt), then sendConfirmationEmail; a
\* failed write of the body throws to catch (msgErr), a failed send is
\* logged inside sendConfirmationEmail.
SaveBodyAndConfirm ==
    /\ \/ extraction.stage = "html"
       \/ extraction.stage = "text" /\ ~NeedsHtml(extraction.prompt)
    /\ \/ /\ extraction' = [extraction EXCEPT !.stage = "done",
                                               !.body = extraction.prompt,
                                               !.acked = TRUE]
          /\ UNCHANGED faults
       \/ /\ MayFail
          /\ \E bodyFails \in BOOLEAN :
               /\ bodyFails => extraction.prompt # NoData
               /\ extraction' = [extraction EXCEPT
                     !.stage = "done",
                     !.body = IF bodyFails THEN NoData ELSE extraction.prompt]
          /\ faults' = faults + 1
    /\ UNCHANGED << conversation, budget, tsPoller, authorization, numbering, sender, listing, account, cursorOf, provider, stateFiles, tree, sent, mainPc,
                    process, cyc, minted, logs, overlapped >>

NextParts == TextTraversal \/ HtmlTraversal \/ SaveBodyAndConfirm

SpecParts == InitParts /\ [][NextParts]_vars

\* =================================================================
\* One call of getUniqueAttachments (listAttachments) at a time, for every
\* attachments folder of up to MaxEntries entries, each a file or a
\* sequence folder of up to MaxEntries files.  A file content is a pair
\* << digest, variant >>: the MD5 digest of the bytes and which of the
\* byte strings of that digest they are (MD5 maps byte strings of any
\* length to 128 bits, and byte strings that share a digest are known).
\* =================================================================
Contents == { <<1, 1>>, <<1, 2>>, <<2, 1>> }

NoContent == <<0, 0>>

\* hash.update(fileBuffer); hash.digest('hex')
Md5(content) == content[1]

FileEntry(name, content) ==
    [name |-> name, isDirectory |-> FALSE, content |-> content, entries |-> <<>>]

DirEntry(name, entries) ==
    [name |-> name, isDirectory |-> TRUE, content |-> NoContent,
     entries |-> entries]

FileEntries == {FileEntry(n, c) : n \in {"a.txt", "b.txt"}, c \in Contents}

\* The entries of one directory, in the order readdir returns them: no
\* two entries of a directory have the same name.
RECURSIVE EntryLists(_, _)
EntryLists(E, n) ==
    IF n = 0 THEN {<<>>}
    ELSE EntryLists(E, n - 1)
         \cup {Append(l, e) : l \in {x \in EntryLists(E, n - 1) : Len(x) = n - 1},
                              e \in E}

DistinctNames(l) == \A x, y \in DOMAIN l : x # y => l[x].name # l[y].name

SequenceFolders ==
    {DirEntry(n, l) : n \in {"0", "1"},
                      l \in {x \in EntryLists(FileEntries, MaxEntries) :
                                DistinctNames(x)}}

Folders ==
    {l \in EntryLists(FileEntries \cup SequenceFolders, MaxEntries) :
        DistinctNames(l)}

\* getAllFiles(dir): the files of dir and of its subdirectories, in
\* readdir order, each with its path below dir
RECURSIVE getAllFiles(_, _)
getAllFiles(entries, dir) ==
    IF entries = <<>> THEN <<>>
    ELSE LET entry == Head(entries)
             fullPath == Append(dir, entry.name)
         IN (IF entry.isDirectory
             THEN getAllFiles(entry.entries, fullPath)
             ELSE << [path |-> fullPath, content |-> entry.content] >>)
            \o getAllFiles(Tail(entries), dir)

InitAttachments ==
    /\ PollerAtRest
    /\ conversation = NoConversation
    /\ budget = NoBudget
    /\ tsPoller = NoTsPoller
    /\ authorization = NoAuthorization
    /\ numbering = NoNumbering
    /\ sender = NoSender
    /\ extraction = NoExtraction
    /\ \E folder \in Folders \cup {NoFolder} :
         listing = [NoListing EXCEPT !.folder = folder, !.stage = "called"]

\* (mutant) the error of the scan is thrown on to the caller
ScanErrorThrown(l, code) == [l EXCEPT !.stage = "thrown", !.err = code]

\* catch (error): logged, whatever its code; uniqueAttachments is returned
ScanError(l, code) == [l EXCEPT !.stage = "returned", !.err = code]

\* attachmentFiles = await getAllFiles(attachmentFolder): readdir throws
\* ENOENT when the folder does not exist, and may fail otherwise
ScanFolder ==
    /\ listing.stage = "called"
    /\ \/ /\ listing.folder = NoFolder
          /\ listing' = ScanError(listing, "ENOENT")
          /\ UNCHANGED faults
       \/ /\ listing.folder # NoFolder
          /\ listing' = [listing EXCEPT
                !.stage = "hashing",
                !.attachmentFiles = getAllFiles(listing.folder, <<>>),
                !.pos = 1]
          /\ UNCHANGED faults
       \/ /\ listing.folder # NoFolder
          /\ MayFail
          /\ listing' = ScanError(listing, "EACCES")
          /\ faults' = faults + 1
    /\ UNCHANGED << conversation, budget, tsPoller, authorization, numbering, sender, extraction, account, cursorOf, provider, stateFiles, tree, sent, mainPc,
                    process, cyc, minted, logs, overlapped >>

\* path.relative(attachmentFolder, filePath).split(path.sep)[0]
SequenceFolder(path) == Head(path)

\* path.basename(filePath)
Basename(path) == path[Len(path)]

\* One turn of the loop over attachmentFiles: calculateFileHash, null
\* when the file cannot be read, and the entry of a hash not seen before.
HashFile ==
    /\ listing.stage = "hashing"
    /\ listing.pos <= Len(listing.attachmentFiles)
    /\ LET file == listing.attachmentFiles[listing.pos]
           hash == Md5(file.content)
       IN \/ /\ listing' = [listing EXCEPT
                   !.pos = listing.pos + 1,
                   !.hashes = listing.hashes \cup {hash},
                   !.uniqueAttachments =
                       IF hash \in listing.hashes
                       THEN listing.uniqueAttachments
                       ELSE Append(listing.uniqueAttachments,
                                   [originalPath |-> file.path,
                                    filename |-> Basename(file.path),
                                    sequenceFolder |-> SequenceFolder(file.path),
                                    hash |-> hash,
                                    place |-> listing.pos])]
             /\ UNCHANGED faults
          \/ /\ MayFail
             /\ listing' = [listing EXCEPT
                   !.pos = listing.pos + 1,
                   !.unread = listing.unread \cup {listing.pos}]
             /\ faults' = faults + 1
    /\ UNCHANGED << conversation, budget, tsPoller, authorization, numbering, sender, extraction, account, cursorOf, provider, stateFiles, tree, sent, mainPc,
                    process, cyc, minted, logs, overlapped >>

\* return uniqueAttachments
ReturnList ==
    /\ listing.stage = "hashing"
    /\ listing.pos > Len(listing.attachmentFiles)
    /\ listing' = [listing EXCEPT !.stage = "returned"]
    /\ UNCHANGED << conversation, budget, tsPoller, authorization, numbering, sender, extraction, account, cursorOf, provider, stateFiles, tree, sent, mainPc,
                    process, cyc, faults, minted, logs, overlapped >>

NextAttachments == ScanFolder \/ HashFile \/ ReturnList

SpecAttachments == InitAttachments /\ [][NextAttachments]_vars

\* =================================================================
\* The name of a turn directory: fs.readdir of the conversation folder,
\* the filter on /^\d{3}$/, parseInt, Math.max, toString and padStart, for
\* folders that hold turns up to 999 and entries that are no turns.
\* =================================================================

\* A character of a name: the digits 0..9, and a letter.
Letter == 10

\* /^\d{3}$/.test(name)
IsThreeDigits(name) ==
    Len(name) = 3 /\ \A i \in 1..3 : name[i] \in 0..9

\* parseInt(name, 10) of a name made of digits
RECURSIVE parseInt(_)
parseInt(name) ==
    IF name = <<>> THEN 0
    ELSE 10 * parseInt(SubSeq(name, 1, Len(name) - 1)) + name[Len(name)]

\* n.toString()
RECURSIVE DecimalString(_)
DecimalString(n) ==
    IF n < 10 THEN << n >> ELSE Append(DecimalString(n \div 10), n % 10)

\* str.padStart(targetLength, padString): a string that is long enough is
\* returned as it is
RECURSIVE padStart(_, _, _)
padStart(str, targetLength, padString) ==
    IF Len(str) >= targetLength THEN str
    ELSE padStart(<< padString >> \o str, targetLength, padString)

\* numberedFolders
NumberedDirents(existingFolders) ==
    {parseInt(dirent.name) :
        dirent \in {d \in existingFolders :
                        d.isDirectory /\ IsThreeDigits(d.name)}}

\* The initial nextSequenceNumber, '001'.
FirstSequenceName == << 0, 0, 1 >>

\* nextSequenceNumber after a successful readdir
NextSequenceName(existingFolders) ==
    IF NumberedDirents(existingFolders) = {} THEN FirstSequenceName
    ELSE padStart(DecimalString(SetMax(NumberedDirents(existingFolders)) + 1),
                  3, 0)

\* What a conversation folder may hold: turn directories, a directory
\* with four digits, with two, with a letter, and a file named as a turn.
Dirents ==
    {[name |-> n, isDirectory |-> TRUE] :
        n \in {<<0, 0, 1>>, <<0, 0, 2>>, <<0, 0, 9>>, <<0, 1, 0>>, <<0, 9, 9>>,
               <<1, 0, 0>>, <<9, 9, 8>>, <<9, 9, 9>>, <<1, 0, 0, 0>>, <<0, 1>>,
               <<Letter, 0, 1>>}}
    \cup {[name |-> <<0, 0, 3>>, isDirectory |-> FALSE]}

\* The conversation folder exists (fs.mkdir(conversationDir) has run) and
\* holds some entries.
InitTurns ==
    /\ PollerAtRest
    /\ conversation = NoConversation
    /\ budget = NoBudget
    /\ tsPoller = NoTsPoller
    /\ authorization = NoAuthorization
    /\ sender = NoSender
    /\ extraction = NoExtraction
    /\ listing = NoListing
    /\ \E S \in SUBSET Dirents :
         /\ Cardinality(S) <= MaxDirents
         /\ numbering = [NoNumbering EXCEPT !.stage = "listed",
                                            !.existingFolders = S]

\* await fs.readdir(conversationDir, {withFileTypes: true}) and the
\* computation of nextSequenceNumber; '001' stays when readdir throws
NumberTurn ==
    /\ numbering.stage = "listed"
    /\ \/ /\ numbering' =
               [numbering EXCEPT
                   !.stage = "numbered", !.readDirErr = FALSE,
                   !.nextSequenceNumber =
                       NextSequenceName(numbering.existingFolders)]
          /\ UNCHANGED faults
       \/ /\ MayFail
          /\ numbering' = [numbering EXCEPT
                              !.stage = "numbered", !.readDirErr = TRUE,
                              !.nextSequenceNumber = FirstSequenceName]
          /\ faults' = faults + 1
    /\ UNCHANGED << conversation, budget, tsPoller, authorization, sender, extraction, listing, account, cursorOf, provider,
                    stateFiles, tree, sent, mainPc, process, cyc, minted,
                    logs, overlapped >>

\* await fs.mkdir(messageContentSavePath, {recursive: true}): the
\* directory is made, or is there already; a file of that name makes
\* mkdir throw
MakeTurn ==
    /\ numbering.stage = "numbered"
    /\ numbering' =
         IF [name |-> numbering.nextSequenceNumber, isDirectory |-> FALSE]
               \in numbering.existingFolders
         THEN [numbering EXCEPT !.stage = "thrown"]
         ELSE [numbering EXCEPT
                  !.stage = "made", !.made = numbering.made + 1,
                  !.existingFolders =
                      numbering.existingFolders
                      \cup {[name |-> numbering.nextSequenceNumber,
                              isDirectory |-> TRUE]}]
    /\ UNCHANGED << conversation, budget, tsPoller, authorization, sender, extraction, listing, account, cursorOf, provider,
                    stateFiles, tree, sent, mainPc, process, cyc, faults,
                    minted, logs, overlapped >>

\* The next tagged message of the conversation.
NextTurn ==
    /\ numbering.stage = "made"
    /\ numbering.made < MaxTurns
    /\ numbering' = [numbering EXCEPT !.stage = "listed"]
    /\ UNCHANGED << conversation, budget, tsPoller, authorization, sender, extraction, listing, account, cursorOf, provider,
                    stateFiles, tree, sent, mainPc, process, cyc, faults,
                    minted, logs, overlapped >>

NextTurns == NumberTurn \/ MakeTurn \/ NextTurn

SpecTurns == InitTurns /\ [][NextTurns]_vars

\* =================================================================
\* authorizeGmail: the credentials file, the token file, the refresh of a
\* stored token and the prompt for an authorization code.
\* =================================================================

\* A token granted to an account: generation n of its access token.
Token(owner, n) == [owner |-> owner, access_token |-> n, refresh_token |-> 1]

\* The token files a call may find: none, one that cannot be read, one
\* that is no JSON, and one with an entry for any set of addresses.
TokenFiles ==
    {[state |-> st, data |-> NoTokens] :
        st \in {"absent", "unreadable", "malformed"}}
    \cup {[state |-> "json",
           data |-> [e \in Emails |-> IF e \in S THEN Token(e, 1) ELSE NoToken]] :
            S \in SUBSET Emails}

InitAuth ==
    /\ PollerAtRest
    /\ conversation = NoConversation
    /\ budget = NoBudget
    /\ tsPoller = NoTsPoller
    /\ sender = NoSender
    /\ extraction = NoExtraction
    /\ listing = NoListing
    /\ numbering = NoNumbering
    /\ \E email \in Emails, file \in TokenFiles,
          credentialsFile \in {"ok", "unreadable", "malformed"} :
         authorization =
             [NoAuthorization EXCEPT
                 !.stage = "called", !.email = email,
                 !.credentialsFile = credentialsFile,
                 !.tokenFile = file, !.before = file]

\* (mutant) the failing read of the credentials file is not noticed
CredentialsErrorIgnored(a) == [a EXCEPT !.stage = "loaded"]

\* catch of fs.readFile(credentialsPath): throw new Error('Error loading
\* client secret file from ...')
CredentialsError(a) ==
    [a EXCEPT !.stage = "rejected",
              !.err = "Error loading client secret file"]

\* fs.readFile(credentialsPath), JSON.parse and new google.auth.OAuth2
LoadCredentials ==
    /\ authorization.stage = "called"
    /\ authorization' =
         CASE authorization.credentialsFile = "unreadable" ->
                CredentialsError(authorization)
           [] authorization.credentialsFile = "malformed" ->
                [authorization EXCEPT !.stage = "rejected",
                                      !.err = "SyntaxError"]
           [] OTHER -> [authorization EXCEPT !.stage = "loaded"]
    /\ UNCHANGED << conversation, budget, tsPoller, numbering, sender, extraction, listing, account, cursorOf,
                    provider, stateFiles, tree, sent, mainPc, process, cyc,
                    faults, minted, logs, overlapped >>

\* (mutant) the entry of the token file is not looked at
HasEntryNever(tokenData, email) == FALSE

\* if (tokenData[email])
HasEntry(tokenData, email) == tokenData[email] # NoToken

\* readTokenData: {} when the file does not exist, an error when it
\* cannot be read or parsed
readTokenData(file) ==
    IF file.state = "json" THEN file.data ELSE NoTokens

\* await readTokenData(tokenPath) and the branch on tokenData[email];
\* with an entry, oAuth2Client.setCredentials(tokenData[email])
ReadTokens ==
    /\ authorization.stage = "loaded"
    /\ authorization' =
         IF authorization.tokenFile.state \in {"unreadable", "malformed"}
         THEN [authorization EXCEPT !.stage = "rejected",
                                    !.err = "Failed to read token data"]
         ELSE IF HasEntry(readTokenData(authorization.tokenFile),
                          authorization.email)
         THEN [authorization EXCEPT
                  !.stage = "refresh",
                  !.tokenData = readTokenData(authorization.tokenFile),
                  !.credentials =
                      readTokenData(authorization.tokenFile)[authorization.email]]
         ELSE [authorization EXCEPT
                  !.stage = "prompt",
                  !.tokenData = readTokenData(authorization.tokenFile)]
    /\ UNCHANGED << conversation, budget, tsPoller, numbering, sender, extraction, listing, account, cursorOf,
                    provider, stateFiles, tree, sent, mainPc, process, cyc,
                    faults, minted, logs, overlapped >>

\* refreshedTokens merged into the entry
Refreshed(token) == [token EXCEPT !.access_token = token.access_token + 1]

\* writeTokenData(tokenPath, tokenData)
writeTokenData(a, tokenData) ==
    [a EXCEPT !.tokenFile = [state |-> "json", data |-> tokenData],
              !.written = a.written + 1]

\* await oAuth2Client.refreshAccessToken() and writeTokenData in the try
\* block; the catch, for a token that is expired or revoked and for a
\* write that fails alike, goes on to getNewToken
RefreshToken ==
    /\ authorization.stage = "refresh"
    /\ LET a == authorization
           entry == Refreshed(a.tokenData[a.email])
           tokenData == [a.tokenData EXCEPT ![a.email] = entry]
       IN \/ /\ authorization' =
                   [writeTokenData(a, tokenData) EXCEPT
                       !.stage = "resolved", !.refreshed = "ok",
                       !.tokenData = tokenData, !.credentials = entry]
             /\ UNCHANGED faults
          \/ /\ authorization' =
                   [a EXCEPT !.stage = "prompt", !.refreshed = "failed"]
             /\ UNCHANGED faults
          \/ /\ MayFail
             /\ authorization' =
                   [a EXCEPT !.stage = "prompt", !.refreshed = "unsaved",
                             !.tokenData = tokenData, !.credentials = entry]
             /\ faults' = faults + 1
    /\ UNCHANGED << conversation, budget, tsPoller, numbering, sender, extraction, listing, account, cursorOf,
                    provider, stateFiles, tree, sent, mainPc, process, cyc,
                    minted, logs, overlapped >>

\* getNewToken: rl.question, oAuth2Client.getToken(code) and
\* setCredentials; then tokenData[email] = oAuth2Client.credentials and
\* writeTokenData.  The code is one the user got for some account.
GetNewToken ==
    /\ authorization.stage = "prompt"
    /\ LET a == [authorization EXCEPT !.questions = authorization.questions + 1]
       IN \/ /\ \E owner \in Emails :
                  LET entry == Token(owner, 2 + a.credentials.access_token)
                      tokenData == [a.tokenData EXCEPT ![a.email] = entry]
                  IN authorization' =
                        [writeTokenData(a, tokenData) EXCEPT
                            !.stage = "resolved", !.tokenData = tokenData,
                            !.credentials = entry]
             /\ UNCHANGED faults
          \/ /\ authorization' =
                   [a EXCEPT !.stage = "rejected",
                             !.err = "Error retrieving access token"]
             /\ UNCHANGED faults
          \/ /\ MayFail
             /\ \E owner \in Emails :
                  authorization' =
                     [a EXCEPT !.stage = "rejected", !.err = "writeFile",
                               !.credentials =
                                   Token(owner, 2 + a.credentials.access_token)]
             /\ faults' = faults + 1
    /\ UNCHANGED << conversation, budget, tsPoller, numbering, sender, extraction, listing, account, cursorOf,
                    provider, stateFiles, tree, sent, mainPc, process, cyc,
                    minted, logs, overlapped >>

NextAuth == LoadCredentials \/ ReadTokens \/ RefreshToken \/ GetNewToken

SpecAuth == InitAuth /\ [][NextAuth]_vars

\* =================================================================
\* The TypeScript poller: fetchNewEmails of src/poll/pollGmail.ts, one
\* invocation after the other, from a first run without state files.
\* =================================================================

InitTs ==
    /\ PollerAtRest
    /\ conversation = NoConversation
    /\ budget = NoBudget
    /\ sender = NoSender
    /\ extraction = NoExtraction
    /\ listing = NoListing
    /\ numbering = NoNumbering
    /\ authorization = NoAuthorization
    /\ tsPoller = [NoTsPoller EXCEPT !.pc = "idle"]

TsUnchanged ==
    UNCHANGED << conversation, budget, authorization, numbering, sender,
                 extraction, listing, account, cursorOf, provider, stateFiles,
                 tree, sent, mainPc, process, cyc, minted, logs, overlapped >>

\* A message is added to the mailbox.
TsArrive ==
    /\ tsPoller.pc # "off"
    /\ tsPoller.added < MaxTsMail
    /\ tsPoller' = [tsPoller EXCEPT !.added = tsPoller.added + 1]
    /\ UNCHANGED faults
    /\ TsUnchanged

\* The try block of the two reads: the cursor file first, the counter
\* file after it; the first read that throws leaves what was not read
\* yet at null and 0.  counterFails: the read of the counter file throws.
TsRead(t, counterFails) ==
    IF t.lastHistoryIdFile = NoFile
    THEN [t EXCEPT !.lastHistoryId = NoFile, !.totalPollCycles = 0,
                   !.readErr = "ENOENT"]
    ELSE IF t.totalPollCyclesFile = NoFile \/ counterFails
    THEN [t EXCEPT !.lastHistoryId = t.lastHistoryIdFile,
                   !.totalPollCycles = 0,
                   !.readErr = IF counterFails THEN "error" ELSE "ENOENT"]
    ELSE [t EXCEPT !.lastHistoryId = t.lastHistoryIdFile,
                   !.totalPollCycles = t.totalPollCyclesFile, !.readErr = ""]

\* The setInterval callback (and the initial poll): fetchNewEmails up to
\* its call of history.list; totalPollCycles++
TsBegin ==
    /\ tsPoller.pc = "idle"
    /\ tsPoller.cycles < MaxTsCycles
    /\ \E counterFails \in BOOLEAN :
         /\ counterFails =>
              /\ MayFail
              /\ tsPoller.lastHistoryIdFile # NoFile
              /\ tsPoller.totalPollCyclesFile # NoFile
         /\ LET t == TsRead(tsPoller, counterFails)
            IN tsPoller' = [t EXCEPT !.pc = "list",
                                     !.totalPollCycles = t.totalPollCycles + 1,
                                     !.cycles = t.cycles + 1,
                                     !.newHistoryId = NoFile, !.entries = 0]
         /\ faults' = faults + Incident(counterFails)
    /\ TsUnchanged

\* The history entries the provider answers for startHistoryId: those
\* after it; all of them when no startHistoryId is given.
TsEntries(t) ==
    IF t.lastHistoryId = NoFile THEN t.added
    ELSE IF HistBase + t.added > t.lastHistoryId
    THEN HistBase + t.added - t.lastHistoryId ELSE 0

\* await gmail.users.history.list: the provider answers, or rejects the
\* request with 404 or 400 (an invalid or missing startHistoryId), or the
\* call fails otherwise.  What the provider does with a request that has
\* no startHistoryId is the provider's choice.
TsList ==
    /\ tsPoller.pc = "list"
    /\ \/ /\ tsPoller' =
               [tsPoller EXCEPT
                   !.entries = TsEntries(tsPoller),
                   !.newHistoryId = HistBase + tsPoller.added,
                   !.pc = IF TsEntries(tsPoller) > 0 THEN "wcursor"
                          ELSE "wcounter"]
          /\ UNCHANGED faults
       \/ /\ tsPoller.lastHistoryId = NoFile
          /\ tsPoller' = [tsPoller EXCEPT !.pc = "unlink"]
          /\ UNCHANGED faults
       \/ /\ tsPoller.lastHistoryId # NoFile
          /\ MayFail
          /\ \E pc \in {"unlink", "idle"} :
               tsPoller' = [tsPoller EXCEPT !.pc = pc]
          /\ faults' = faults + 1
    /\ TsUnchanged

\* await fs.writeFile(lastHistoryIdPath, newHistoryId)
TsWriteCursor ==
    /\ tsPoller.pc = "wcursor"
    /\ tsPoller' = [tsPoller EXCEPT
                      !.pc = "wcounter",
                      !.lastHistoryIdFile = tsPoller.newHistoryId]
    /\ UNCHANGED faults
    /\ TsUnchanged

\* await fs.writeFile(totalPollCyclesPath, totalPollCycles.toString())
TsWriteCounter ==
    /\ tsPoller.pc = "wcounter"
    /\ tsPoller' = [tsPoller EXCEPT
                      !.pc = "idle",
                      !.totalPollCyclesFile = tsPoller.totalPollCycles]
    /\ UNCHANGED faults
    /\ TsUnchanged

\* catch, error.code 404 or 400: await fs.unlink(lastHistoryIdPath)
TsUnlink ==
    /\ tsPoller.pc = "unlink"
    /\ tsPoller' = [tsPoller EXCEPT !.pc = "idle",
                                    !.lastHistoryIdFile = NoFile]
    /\ UNCHANGED faults
    /\ TsUnchanged

NextTs ==
    TsArrive \/ TsBegin \/ TsList \/ TsWriteCursor \/ TsWriteCounter \/ TsUnlink

SpecTs == InitTs /\ [][NextTs]_vars

\* =================================================================
\* The timers of main(): setInterval(pollInterval) and
\* setTimeout(pollDurationMinutes * 60 * 1000), armed when the initial
\* poll has returned.  Time is counted in seconds.
\* =================================================================

\* The greatest delay a timer of the runtime takes, 2^31 - 1 ms, in whole
\* seconds: 2147483647 ms is 2147483 s and 647 ms.
TimeoutMax == 2147483

\* The values of pollDurationMinutes (0: continuous) and of pollInterval
\* (in seconds) a run may be configured with.
Durations == {0, 1, 2, 3, 35791, 35792, 43200}
Intervals == {30, 60, 120}

\* if (pollDurationMinutes > 0)
ArmsTimeout(pollDurationMinutes) == pollDurationMinutes > 0

\* The delay a timer runs with: a delay of more than 2^31 - 1 ms is set
\* to 1 ms by the runtime (0 in whole seconds).
TimerDelay(seconds) == IF seconds > TimeoutMax THEN 0 ELSE seconds

InitBudget ==
    /\ PollerAtRest
    /\ conversation = NoConversation
    /\ sender = NoSender
    /\ extraction = NoExtraction
    /\ listing = NoListing
    /\ numbering = NoNumbering
    /\ authorization = NoAuthorization
    /\ tsPoller = NoTsPoller
    /\ \E minutes \in Durations, interval \in Intervals :
         budget = [NoBudget EXCEPT !.pc = "first",
                                   !.pollDurationMinutes = minutes,
                                   !.pollInterval = interval]

BudgetUnchanged ==
    UNCHANGED << conversation, tsPoller, authorization, numbering, sender,
                 extraction, listing, account, cursorOf, provider, stateFiles,
                 tree, sent, mainPc, process, cyc, faults, minted, logs,
                 overlapped >>

\* The initial poll returns, after some time: setInterval, and setTimeout
\* if a duration is configured.
ArmTimers ==
    /\ budget.pc = "first"
    /\ \E took \in {1, 45} :
         budget' =
            [budget EXCEPT
                !.pc = "polling", !.now = took, !.armedAt = took,
                !.intervalAt = took + TimerDelay(budget.pollInterval),
                !.timeoutAt =
                    IF ArmsTimeout(budget.pollDurationMinutes)
                    THEN took + TimerDelay(budget.pollDurationMinutes * 60)
                    ELSE NoTimer]
    /\ BudgetUnchanged

\* The setInterval callback runs when it is due: one more poll cycle.
\* After MaxBudgetTicks callbacks the interval is not followed any more.
IntervalFires ==
    /\ budget.pc = "polling"
    /\ budget.cycles < MaxBudgetTicks
    /\ budget.timeoutAt = NoTimer \/ budget.intervalAt <= budget.timeoutAt
    /\ budget' = [budget EXCEPT
                    !.now = budget.intervalAt,
                    !.cycles = budget.cycles + 1,
                    !.intervalAt =
                        budget.intervalAt + TimerDelay(budget.pollInterval)]
    /\ BudgetUnchanged

\* The setTimeout callback runs when it is due: clearInterval and
\* process.exit(0).
TimeoutFires ==
    /\ budget.pc = "polling"
    /\ budget.timeoutAt # NoTimer
    /\ budget.cycles = MaxBudgetTicks \/ budget.timeoutAt <= budget.intervalAt
    /\ budget' = [budget EXCEPT
                    !.pc = "exited",
                    !.now = IF budget.timeoutAt > budget.now
                            THEN budget.timeoutAt ELSE budget.now,
                    !.intervalAt = NoTimer]
    /\ BudgetUnchanged

NextBudget == ArmTimers \/ IntervalFires \/ TimeoutFires

SpecBudget == InitBudget /\ [][NextBudget]_vars

\* The timers with the scheduling of the event loop: a timer that is due
\* runs, and the await of the initial poll returns.
SpecBudgetFair ==
    /\ SpecBudget
    /\ WF_vars(ArmTimers) /\ WF_vars(IntervalFires) /\ WF_vars(TimeoutFires)

\* =================================================================
\* One conversation folder, written by the poller and then read by
\* getUniqueAttachments: the poller saves the attachments of a message in
\* the turn directory <conversationId>/<NNN>/, the listing scans
\* <conversationId>/attachments/.
\* =================================================================

\* What the subfolder "attachments" of the conversation folder may hold
\* when the listing is called: nothing the poller made.
AttachmentFolders ==
    {NoFolder, <<>>,
     << DirEntry("0", << FileEntry("a.txt", <<1, 1>>) >>) >>,
     << DirEntry("0", << FileEntry("a.txt", <<1, 1>>) >>),
        DirEntry("1", << FileEntry("b.txt", <<2, 1>>) >>) >>}

InitConversation ==
    /\ PollerAtRest
    /\ budget = NoBudget
    /\ tsPoller = NoTsPoller
    /\ authorization = NoAuthorization
    /\ numbering = NoNumbering
    /\ sender = NoSender
    /\ extraction = NoExtraction
    /\ listing = NoListing
    /\ \E folder \in AttachmentFolders :
         conversation = [NoConversation EXCEPT !.attachments = folder]

\* path.join(conversationDir, nextSequenceNumber), fs.mkdir
MkdirContentSavePath(turns, t) ==
    [y \in DOMAIN turns \cup {t} |->
        IF y \in DOMAIN turns THEN turns[y] ELSE EmptyFn]

\* fs.writeFile(path.join(attachmentSavePath, attachmentFilename), data)
WriteAttachment(turns, t, name, content) ==
    [turns EXCEPT ![t] =
        [x \in DOMAIN turns[t] \cup {name} |->
            IF x = name THEN content ELSE turns[t][x]]]

\* The poller saves one attachment of a message of the conversation in
\* the turn directory of the message.
SaveAttachment ==
    /\ ~conversation.listed
    /\ conversation.written < MaxWritten
    /\ \E t \in 1..MaxTurns, name \in {"a.txt", "b.txt"}, content \in Contents :
         conversation' =
            [conversation EXCEPT
                !.turns = WriteAttachment(
                              MkdirContentSavePath(conversation.turns, t),
                              t, name, content),
                !.written = conversation.written + 1]
    /\ UNCHANGED << budget, tsPoller, authorization, numbering, sender,
                    extraction, listing, account, cursorOf, provider,
                    stateFiles, tree, sent, mainPc, process, cyc, faults,
                    minted, logs, overlapped >>

\* getUniqueAttachments(conversationId) is called: attachmentFolder is
\* path.join(conversationFolder, 'attachments').
ListConversation ==
    /\ ~conversation.listed
    /\ listing.stage = "none"
    /\ conversation' = [conversation EXCEPT !.listed = TRUE]
    /\ listing' = [NoListing EXCEPT !.folder = conversation.attachments,
                                    !.stage = "called"]
    /\ UNCHANGED << budget, tsPoller, authorization, numbering, sender,
                    extraction, account, cursorOf, provider, stateFiles, tree,
                    sent, mainPc, process, cyc, faults, minted, logs,
                    overlapped >>

NextConversation ==
    SaveAttachment \/ ListConversation \/ ScanFolder \/ HashFile \/ ReturnList

SpecConversation == InitConversation /\ [][NextConversation]_vars

\* =================================================================
\* The claims
\* =================================================================

\* The ids of the change records that add message m.
ChangeIds(m) == {HistBase + j : j \in {x \in DOMAIN history : history[x] = m}}

\* The invocations that have started and not yet resolved.
Cycles == {k \in Slots : Active(k)}

\* C1: the persisted cursor is never advanced past a message that failed
\* to materialize: when an invocation that listed history is over and a
\* message of its batch could not be fetched or written, the cursor in
\* last_history_id.txt is still before that message's change id, so that
\* the next listing returns the message again.
C1_CursorNotPastFailed ==
    \A k \in Cycles :
        LET c == cyc[k]
        IN c.pc = "return" /\ c.listed =>
             \A m \in c.failed : \A id \in ChangeIds(m) :
                 id > c.lastHistoryId => cursorFile < id

C3_NoOverlap == Cardinality(InFlight) <= 1

\* C4: turn numbers are never reused: no two materializations into the
\* same conversation are given the same turn directory.
C4_TurnNeverReused ==
    \A u \in used : \A v \in used :
        u.conv = v.conv /\ u.turn = v.turn => u.by = v.by

\* The materializations into conversation c that were given a turn
\* directory, and those that completed with every write succeeding.
UsesOf(c) == {u \in used : u.conv = c}
DoneIn(c) == {g \in matOK : g.conv = c}

\* C5: turn numbering monotonicity: with sequential processing, when N
\* materializations into a conversation have all succeeded, the
\* conversation's turn directories are exactly 001..00N.
C5_TurnsContiguous ==
    \A c \in DOMAIN tree :
        (/\ ~overlapped
         /\ \A u \in UsesOf(c) : \E g \in DoneIn(c) : g.by = u.by)
        => DOMAIN tree[c] = 1..Cardinality(DoneIn(c))

\* C6: materializing a message never disturbs previously written turns:
\* every turn directory that exists before a step holds the same
\* body_text.txt and the same attachment files after it.
C6_TurnsUndisturbed ==
    [][\A c \in DOMAIN tree : \A t \in DOMAIN tree[c] :
          tree'[c][t] = tree[c][t]]_vars

\* C7: at-least-once processing.  A message the persisted cursor has
\* passed is never listed again, so every tagged message added after the
\* baseline must have been materialized and acknowledged by the time the
\* cursor passes its change id (no invalid-cursor resync having occurred).
C7_AtLeastOnce ==
    \A j \in DOMAIN history :
        LET m == history[j]
            id == HistBase + j
        IN (/\ Kinds[mailbox[m]].tagged
            /\ baseline # 0 /\ id > baseline
            /\ ~resynced
            /\ cursorFile >= id)
           => /\ \E g \in matOK : g.msg = m
              /\ m \in sent

C9_TransientFetchError ==
    \A k \in Cycles :
        LET c == cyc[k]
        IN c.err \in {"transient", "auth"} =>
             /\ c.pc = "return"
             /\ c.wrote = NoFile /\ c.counted = NoFile
             /\ c.fetched = {} /\ c.turns = {} /\ c.acks = {}
             /\ ~overlapped /\ c.cursorRead # "error" =>
                  readLastHistoryId(cursorFile, FALSE) = c.lastHistoryId

\* C9 witness: history.list failed with a transient error while a message
\* was waiting beyond the cursor.
C9_Witness ==
    \E k \in Cycles :
        /\ cyc[k].err = "transient"
        /\ cyc[k].lastHistoryId # 0
        /\ cyc[k].lastHistoryId < ProviderHistoryId
        /\ cursorFile = cyc[k].lastHistoryId

\* C10: the process never exits because of the budget while a poll cycle
\* is in flight.
C10_NoExitMidCycle == mainPc = "exited" => InFlight = {}

\* The subject of message m, and whether it fits the tag grammar: the
\* keyword, in any letter case, at the very start.
SubjectOf(m) == Kinds[mailbox[m]].subject
FitsTagGrammar(subject) == subject # <<>> /\ Class(subject[1]) = "kw"

\* The messages whose content some file of the tree holds.
Filed ==
    UNION {UNION {{tree[c][t].body[1]}
                    \cup {tree[c][t].files[f][1] : f \in DOMAIN tree[c][t].files} :
                  t \in DOMAIN tree[c]} :
           c \in DOMAIN tree}

\* C11: a message whose subject does not fit the tag grammar is never
\* materialized or acknowledged: no turn directory is made for it, no file
\* holds its body or an attachment of it, and no acknowledgment is sent
\* for it.
C11_UntaggedNeverMaterialized ==
    \A m \in DOMAIN mailbox :
        ~FitsTagGrammar(SubjectOf(m)) =>
            /\ m \notin sent
            /\ m \notin Filed
            /\ \A u \in used : u.msg # m
            /\ \A k \in Slots : m \notin cyc[k].turns \cup cyc[k].acks
            /\ \A mimeType \in {"text/plain", "text/html"} :
                 processMessageParts(Kinds[mailbox[m]].parts, mimeType,
                                     FALSE, {}, {}).writes = <<>>

\* C11 witness: a cycle has fetched a message that is not tagged and has
\* gone on to the end of its batch, in which it materialized another one.
C11_Witness ==
    \E k \in Cycles : \E m \in cyc[k].fetched :
        /\ ~FitsTagGrammar(SubjectOf(m))
        /\ cyc[k].pc = "return"
        /\ cyc[k].turns # {}
\* C12: an acknowledgment is sent only for a tagged message and only when
\* its materialization succeeded: every acknowledgment sent belongs to a
\* materialization of a tagged message whose turn directory holds the body
\* and every attachment that was extracted.
C12_AckOnlyAfterMaterialized ==
    /\ \A u \in used :
          u.acked => FitsTagGrammar(SubjectOf(u.msg)) /\ u.lost = {}
    /\ \A m \in sent :
          /\ FitsTagGrammar(SubjectOf(m))
          /\ \E u \in used : u.msg = m /\ u.acked

\* C13: a failed send of the acknowledgment blocks nothing: the cycle is
\* not turned into a failed one, and when it returns it has gone through
\* every message of its batch and has stored the cursor it computed and the
\* poll counter.
C13_SendFailureNonFatal ==
    \A k \in Cycles :
        LET c == cyc[k]
        IN c.unsent # {} =>
             /\ c.err = ""
             /\ c.unsent \subseteq c.turns
             /\ c.pc = "return" =>
                  /\ c.i = Len(c.newMessages)
                  /\ \A j \in DOMAIN c.newMessages :
                        c.newMessages[j] \in c.fetched \cup c.failed
                  /\ c.counted = c.total /\ c.counted # NoFile
                  /\ StoresCursor(c) => c.wrote = c.maxHistoryId

\* C13 witness: the send failed for the first message of a batch of two,
\* and the cycle still materialized and acknowledged the second and stored
\* cursor and counter.
C13_Witness ==
    \E k \in Cycles :
        LET c == cyc[k]
        IN /\ c.pc = "return"
           /\ Len(c.newMessages) = 2
           /\ c.newMessages[1] \in c.unsent
           /\ c.newMessages[2] \in c.acks
           /\ c.wrote = c.maxHistoryId
           /\ counterFile = c.counted

\* C14: in a non-baseline cycle with at least one new message the cursor
\* stored at the end is the numerically greatest history id among the
\* change records returned, whatever the numbers of digits of the ids; a
\* cycle that was returned no change record stores no cursor.
C14_CursorIsNumericMax ==
    \A k \in Cycles :
        LET c == cyc[k]
        IN c.listed /\ c.err = "" /\ c.pc = "return" =>
             IF c.newMessages # <<>>
             THEN c.wrote = c.greatest
             ELSE c.wrote = NoFile

\* C15: every poll cycle that completes without a fetch error increases
\* the persisted poll counter by exactly 1: with no other invocation in
\* the run, the counter it stores is the counter it read plus 1.
C15_CounterPlusOne ==
    \A k \in Cycles :
        LET c == cyc[k]
        IN c.pc = "return" /\ c.err = "" /\ ~overlapped =>
             /\ c.counted = c.totalRead + 1
             /\ counterFile = c.counted

\* C16: the persisted poll counter never decreases.
C16_CounterNeverDecreases ==
    [][counterFile' >= counterFile]_vars

\* C17: the batch of a cycle is deduplicated: a message id is materialized
\* at most once by one cycle, also when several change records of the
\* history response name it.
C17_BatchDeduplicated ==
    /\ \A u \in used : \A v \in used :
          u.msg = v.msg /\ u.by[1] = v.by[1] => u.by = v.by
    /\ \A k \in Cycles :
          \A i \in DOMAIN cyc[k].newMessages :
          \A j \in DOMAIN cyc[k].newMessages :
              cyc[k].newMessages[i] = cyc[k].newMessages[j] => i = j

\* C18: sender round trip of a generated conversation id: a message sent
\* under the sample subject of the acknowledgment of a message that had no
\* id is classified with the generated id as its explicit conversation id,
\* and is filed as the next turn of that conversation.
C18_MintedIdRoundTrip ==
    sender.followsGenerated /\ sender.stage \in {"classified", "filed"} =>
        /\ sender.isChatterbox
        /\ sender.explicit = sender.follows
        /\ sender.conversationId = sender.follows
        /\ sender.stage = "filed" => sender.turn = sender.followsTurn + 1

\* The position of the identifier in a subject of the form
\* chatterbox:<uuid> <title>: the keyword first, then a colon with
\* optional whitespace before and after it, then the hyphenated id.
IdPositions(subject) ==
    {p \in 3..Len(subject) :
        /\ Class(subject[1]) = "kw"
        /\ Class(subject[p]) = "uuid"
        /\ \E q \in 2..(p - 1) :
             /\ Class(subject[q]) = "colon"
             /\ \A x \in 2..(p - 1) : x # q => Class(subject[x]) = "ws"}

\* u is t without its leading and trailing whitespace.
IsTrimOf(u, t) ==
    \E i \in 1..(Len(t) + 1) : \E j \in 0..Len(t) :
        /\ u = SubSeq(t, i, j)
        /\ \A x \in 1..Len(t) : x < i \/ x > j => Class(t[x]) = "ws"
        /\ u # <<>> => Class(u[1]) # "ws" /\ Class(u[Len(u)]) # "ws"

\* C19: classifier round trip: a subject of the form
\* chatterbox:<uuid> <title> (keyword in any letter case, optional
\* whitespace after the keyword and after the colon) is classified as
\* tagged, with explicit conversation id exactly <uuid> and with the title
\* that follows the id, trimmed of leading and trailing whitespace.
C19_ClassifierRoundTrip ==
    sender.stage \in {"classified", "filed"} =>
        \A p \in IdPositions(sender.subject) :
            /\ sender.isChatterbox
            /\ sender.explicit = sender.subject[p]
            /\ sender.conversationId = sender.subject[p]
            /\ IsTrimOf(sender.title,
                        SubSeq(sender.subject, p + 1, Len(sender.subject)))

\* C19 witness: a classified subject with the keyword in another letter
\* case, whitespace around the colon, a space after the id and a title.
C19_Witness ==
    /\ sender.stage = "classified"
    /\ sender.subject # <<>> /\ sender.subject[1] = Kw(2)
    /\ \E p \in IdPositions(sender.subject) :
         /\ p >= 4 /\ p < Len(sender.subject)
         /\ Class(sender.subject[p + 1]) = "ws"
         /\ sender.explicit = sender.subject[p]
    /\ sender.title # <<>>

\* A subject that starts with the tag keyword and carries no identifier.
NoIdForm(subject) == FitsTagGrammar(subject) /\ IdPositions(subject) = {}

\* C20: a subject that starts with the tag keyword but carries no
\* identifier is classified as tagged with no explicit conversation id and
\* with the remainder, trimmed, as title; a fresh conversation id is
\* generated for it, its conversation did not exist before, and the message
\* becomes turn 001 of it.
C20_NoIdMintsFreshConversation ==
    sender.stage \in {"classified", "filed"} /\ NoIdForm(sender.subject) =>
        /\ sender.isChatterbox
        /\ sender.explicit = NoConv
        /\ IsTrimOf(sender.title, Tail(sender.subject))
        /\ sender.generated
        /\ sender.conversationId # NoConv
        /\ sender.conversationId # sender.follows
        /\ ~sender.existed
        /\ sender.stage = "filed" =>
             /\ sender.turn = 1
             /\ DOMAIN tree[sender.conversationId] = {1}

\* C20 witness: the second message without identifier in a row has been
\* filed as turn 001 of a second conversation.
C20_Witness ==
    /\ sender.stage = "filed"
    /\ NoIdForm(sender.subject)
    /\ sender.followsGenerated
    /\ sender.turn = 1
    /\ Cardinality(DOMAIN tree) = 2

\* C21: a subject that does not start with the tag keyword, in whatever
\* letter case, is classified as untagged; so is the subject of a message
\* that has no Subject header.  Such a message gets no conversation id and
\* is never filed.
C21_NoKeywordUntagged ==
    sender.stage # "written" /\ ~FitsTagGrammar(sender.subject) =>
        /\ ~sender.isChatterbox
        /\ sender.conversationId = NoConv
        /\ sender.stage = "classified"
        /\ tree = EmptyFn

\* C21 witness: a subject with the keyword after other text has been
\* classified.
C21_Witness ==
    /\ sender.stage = "classified"
    /\ ~FitsTagGrammar(sender.subject)
    /\ \E p \in DOMAIN sender.subject : Class(sender.subject[p]) = "kw"

\* The body data of the parts of one MIME type, at the top level and
\* anywhere in the tree.
DirectBodies(parts, mimeType) ==
    {parts[x].data : x \in {y \in DOMAIN parts :
        parts[y].mimeType = mimeType /\ parts[y].data # NoData}}

RECURSIVE AllBodies(_, _)
AllBodies(parts, mimeType) ==
    IF parts = <<>> THEN {}
    ELSE DirectBodies(<< Head(parts) >>, mimeType)
         \cup AllBodies(Head(parts).parts, mimeType)
         \cup AllBodies(Tail(parts), mimeType)

\* C22: when the top-level parts hold both a text/plain and a text/html
\* part with data, the extracted body, and what is written to
\* body_text.txt, is text/plain content; and the text/html traversal runs
\* only when the text/plain traversal found no body.
C22_PlainPreferred ==
    /\ extraction.htmlRan =>
          processMessageParts(extraction.parts, "text/plain", TRUE,
                              extraction.textFail.fetch,
                              extraction.textFail.write).prompt = NoData
    /\ ( /\ extraction.stage \in {"text", "html", "done"}
         /\ DirectBodies(extraction.parts, "text/plain") # {}
         /\ DirectBodies(extraction.parts, "text/html") # {} ) =>
            /\ ~extraction.htmlRan
            /\ extraction.prompt \in AllBodies(extraction.parts, "text/plain")
            /\ extraction.body \in {NoData, extraction.prompt}
            /\ extraction.acked => extraction.body = extraction.prompt

\* C22 witness: a payload with a text/html part before a text/plain part,
\* both at the top level, has been extracted and its body written.
C22_Witness ==
    /\ extraction.stage = "done"
    /\ Len(extraction.parts) = 2
    /\ extraction.parts[1].mimeType = "text/html"
    /\ extraction.parts[1].data # NoData
    /\ extraction.parts[2].mimeType = "text/plain"
    /\ extraction.body = extraction.parts[2].data

\* C23: a traversal prefers a part of the wanted MIME type at the level it
\* scans over any such part nested in a child: when a top-level part
\* matches, the body returned is the data of a top-level part.
C23_SiblingsBeforeChildren ==
    /\ ( /\ extraction.stage = "text"
         /\ DirectBodies(extraction.parts, "text/plain") # {} ) =>
            extraction.prompt \in DirectBodies(extraction.parts, "text/plain")
    /\ ( /\ extraction.stage = "html"
         /\ DirectBodies(extraction.parts, "text/html") # {} ) =>
            extraction.prompt \in DirectBodies(extraction.parts, "text/html")

\* What a traversal of the payload returns when nothing fails.
Unfailing(mimeType) ==
    processMessageParts(extraction.parts, mimeType, TRUE, {}, {})

\* The file names of a list of attachments.
NamesIn(attachments) == {attachments[x].filename : x \in DOMAIN attachments}

\* The attachment ids whose out-of-band fetch failed.
FailedFetches == extraction.textFail.fetch \cup extraction.htmlFail.fetch

\* C24: when the out-of-band fetch of one attachment fails, and nothing
\* else does, the body extracted and written is the one an unfailing
\* extraction yields, every other attachment is in the enumerated list and
\* on disk, and the message is acknowledged.
C24_OnlyFailedAttachmentOmitted ==
    ( /\ extraction.stage = "done"
      /\ Cardinality(FailedFetches) = 1
      /\ extraction.textFail.write = {}
      /\ extraction.htmlFail.write = {} ) =>
        LET failed == CHOOSE id \in FailedFetches : TRUE
            others == NamesIn(Unfailing("text/plain").attachments)
                          \ {FileName(failed - 100)}
        IN /\ extraction.prompt =
                 IF Unfailing("text/plain").prompt # NoData
                 THEN Unfailing("text/plain").prompt
                 ELSE Unfailing("text/html").prompt
           /\ extraction.body = extraction.prompt
           /\ others \subseteq NamesIn(extraction.attachmentDetails)
           /\ others \subseteq DOMAIN extraction.files
           /\ extraction.acked

\* The messages of the first n places of the batch of invocation c.
BatchUpTo(c, n) == {c.newMessages[j] : j \in 1..n}

\* The invocation is past its loop over the batch.
PastLoop(c) ==
    c.listed /\ c.newMessages # <<>> /\ c.pc \in {"pcursor", "counter", "return"}

\* C25: an error while fetching or materializing one message ends the
\* processing of that message only: an invocation leaves its loop only
\* when every message of the batch has been fetched or given up, and it
\* returns only after its persist step.
C25_FailureAbortsOneMessage ==
    \A k \in Slots :
        PastLoop(cyc[k]) =>
            /\ cyc[k].i = Len(cyc[k].newMessages)
            /\ BatchUpTo(cyc[k], Len(cyc[k].newMessages))
                   \subseteq cyc[k].fetched \cup cyc[k].failed
            /\ cyc[k].pc = "return" => cyc[k].counted # NoFile

\* C25 witness: the fetch of the first message of a batch failed, the
\* second message was materialized and acknowledged, and the invocation
\* has stored its counter.
C25_Witness ==
    \E k \in Slots :
        /\ cyc[k].pc = "return"
        /\ Len(cyc[k].newMessages) = 2
        /\ cyc[k].newMessages[1] \in cyc[k].failed \ cyc[k].fetched
        /\ cyc[k].newMessages[2] \in cyc[k].acks
        /\ cyc[k].counted # NoFile

\* The invocation is done with message m of its batch: it gave it up, or
\* sent or failed to send its confirmation, or found it untagged.
DoneWith(c, m) ==
    \/ m \in c.failed \cup c.acks \cup c.unsent
    \/ m \in c.fetched /\ ~Kinds[mailbox[m]].tagged

\* C26: an invocation processes its batch in order and one message at a
\* time: while it is at place i, it is done with every message before
\* place i and has started none after place i.
C26_Sequential ==
    \A k \in Slots :
        cyc[k].listed /\ cyc[k].newMessages # <<>> =>
            /\ cyc[k].i \in 1..Len(cyc[k].newMessages)
            /\ \A j \in 1..(cyc[k].i - 1) : DoneWith(cyc[k], cyc[k].newMessages[j])
            /\ PastLoop(cyc[k]) => DoneWith(cyc[k], cyc[k].newMessages[cyc[k].i])
            /\ cyc[k].fetched \cup cyc[k].turns \cup cyc[k].failed
                   \subseteq BatchUpTo(cyc[k], cyc[k].i)

\* C26 witness: an invocation is materializing the second message of its
\* batch after it has acknowledged the first.
C26_Witness ==
    \E k \in Slots :
        /\ cyc[k].pc = "mkturn"
        /\ cyc[k].i = 2
        /\ cyc[k].newMessages[1] # cyc[k].newMessages[2]
        /\ cyc[k].newMessages[1] \in cyc[k].acks
        /\ cyc[k].newMessages[2] \notin cyc[k].turns

\* The places of attachmentFiles that hold the given content.
PlacesOf(content) ==
    {x \in DOMAIN listing.attachmentFiles :
        listing.attachmentFiles[x].content = content}

\* C27: the list getUniqueAttachments returns has exactly one entry for
\* each distinct content among the files scanned, the first file met with
\* that content, and is empty when there are no files.
C27_OneEntryPerContent ==
    listing.stage = "returned" /\ listing.err = "" /\ listing.unread = {} =>
        /\ \A f \in DOMAIN listing.attachmentFiles :
              LET first == CHOOSE x \in PlacesOf(listing.attachmentFiles[f].content) :
                              \A y \in PlacesOf(listing.attachmentFiles[f].content) :
                                  x <= y
              IN Cardinality({e \in DOMAIN listing.uniqueAttachments :
                     listing.uniqueAttachments[e].place \in
                         PlacesOf(listing.attachmentFiles[f].content)}) = 1
                 /\ \E e \in DOMAIN listing.uniqueAttachments :
                       listing.uniqueAttachments[e].place = first
        /\ listing.attachmentFiles = <<>> => listing.uniqueAttachments = <<>>

\* C28: for a conversation whose folder does not exist,
\* getUniqueAttachments returns an empty list and does not throw.
C28_MissingFolderEmptyList ==
    listing.folder = NoFolder /\ listing.stage # "called" =>
        /\ listing.stage = "returned"
        /\ listing.uniqueAttachments = <<>>

\* C28 witness: the call for a missing folder has returned.
C28_Witness ==
    /\ listing.folder = NoFolder
    /\ listing.stage = "returned"
    /\ listing.err = "ENOENT"

\* C30: loading the cursor is never fatal: an invocation that found no
\* cursor file, or whose read of the file failed, holds the sentinel "0"
\* as lastHistoryId and runs as a baseline cycle: it asks for the profile,
\* lists no history, fetches, materializes and acknowledges nothing, and
\* the cursor it stores is the provider's history id.
C30_CursorLoadNeverFatal ==
    \A k \in Cycles :
        LET c == cyc[k]
        IN c.cursorRead \in {"missing", "error"} =>
             /\ c.lastHistoryId = 0
             /\ c.pc \in {"profile", "bcursor", "counter", "return"}
             /\ ~c.listed
             /\ c.fetched = {} /\ c.turns = {} /\ c.acks = {}
             /\ c.wrote # NoFile => c.wrote = c.currentHistoryId /\ c.wrote >= HistBase

\* C30 witness: the read of a cursor file that holds a cursor failed, and
\* the invocation has stored the provider's history id as a baseline.
C30_Witness ==
    \E k \in Cycles :
        /\ cyc[k].cursorRead = "error"
        /\ cyc[k].pc = "counter"
        /\ cyc[k].wrote = ProviderHistoryId
        /\ cursorFile = cyc[k].wrote

\* C29: a start with --email naming another address than the persisted
\* one reaches its first poll with token.json, the cursor and the counter
\* of the address before deleted, so that this poll is a baseline; and no
\* invocation has listed history with a cursor that was stored for
\* another address than the one it polls.
C29_EmailChangeCleans ==
    \A k \in Cycles :
        LET c == cyc[k]
        IN /\ account.differs /\ c.run = 1 =>
                /\ c.lastHistoryId = 0
                /\ c.totalRead = 0
                /\ ~account.tokenKept
           /\ c.lastHistoryId # 0 /\ c.pc # "list" =>
                c.cursorOf = account.gmailUser

\* C31: every turn directory the poller names has a name of exactly three
\* decimal digits, at least 001, whatever turns the conversation folder
\* holds already, turn 999 included; in a folder without turns the name
\* is 001.
C31_ThreeDigitTurnNames ==
    numbering.stage \in {"numbered", "made"} =>
        /\ IsThreeDigits(numbering.nextSequenceNumber)
        /\ parseInt(numbering.nextSequenceNumber) >= 1
        /\ numbering.made = 0
             /\ NumberedDirents(numbering.existingFolders) = {} =>
                numbering.nextSequenceNumber = FirstSequenceName

\* The call has ended.
AuthEnded == authorization.stage \in {"resolved", "rejected"}

\* The token file held an entry for the requested email when the call
\* began, and the credentials file can be loaded.
AlreadyAuthorized ==
    /\ authorization.credentialsFile = "ok"
    /\ authorization.before.state = "json"
    /\ authorization.before.data[authorization.email] # NoToken

\* C32 as stated: with an entry for the email in the token file,
\* authorizeGmail resolves with credentials of that email and rl.question
\* is never called.
C32_ExistingTokenNoPrompt ==
    AlreadyAuthorized =>
        /\ authorization.questions = 0
        /\ AuthEnded =>
             /\ authorization.stage = "resolved"
             /\ authorization.credentials.owner = authorization.email

\* C32, amended: with an entry for the email in the token file, a call
\* whose refresh of that entry succeeded and was stored resolves with the
\* refreshed credentials of that email, and rl.question was not called; a
\* call whose refresh failed or could not be stored has asked for an
\* authorization code exactly once.
C32_ExistingTokenRefreshed ==
    AlreadyAuthorized /\ AuthEnded =>
        IF authorization.refreshed = "ok"
        THEN /\ authorization.stage = "resolved"
             /\ authorization.questions = 0
             /\ authorization.credentials.owner = authorization.email
             /\ authorization.credentials.access_token
                  > authorization.before.data[authorization.email].access_token
             /\ authorization.tokenFile.data[authorization.email]
                  = authorization.credentials
        ELSE /\ authorization.refreshed \in {"failed", "unsaved"}
             /\ authorization.questions = 1

\* C32 witness: a stored token was refreshed, and the call resolved
\* without a question.
C32_Witness ==
    /\ AlreadyAuthorized
    /\ authorization.stage = "resolved"
    /\ authorization.refreshed = "ok"
    /\ authorization.questions = 0
    /\ authorization.written = 1

\* C33: when the credentials file cannot be read, authorizeGmail rejects
\* with 'Error loading client secret file', asks no question, and leaves
\* the token file as it was (not created, not written).
C33_UnreadableCredentialsReject ==
    authorization.credentialsFile = "unreadable" =>
        /\ authorization.stage \in {"called", "rejected"}
        /\ authorization.stage = "rejected" =>
             authorization.err = "Error loading client secret file"
        /\ authorization.questions = 0
        /\ authorization.written = 0
        /\ authorization.tokenFile = authorization.before

\* C33 witness: the call was rejected for a credentials file that cannot
\* be read, with no token file in place.
C33_Witness ==
    /\ authorization.credentialsFile = "unreadable"
    /\ authorization.stage = "rejected"
    /\ authorization.tokenFile.state = "absent"

\* The invocations of the running process that hold a batch with a
\* message not dealt with yet.
MidBatch ==
    {k \in Slots : /\ mainPc # "exited"
                   /\ cyc[k].lastHistoryId # 0
                   /\ cyc[k].pc \in {"get", "scan", "mkturn"}}

\* C34: the cursor is written only at the end of a cycle: the persisted
\* cursor does not change while an invocation holds a batch with a message
\* not dealt with yet; an invocation writes the cursor at most once, after
\* its message loop and before it has stored the poll counter.
C34_CursorWrittenAtCycleEnd ==
    [][/\ cursorFile' # cursorFile => MidBatch = {}
       /\ \A k \in Slots :
            cyc'[k].no = cyc[k].no /\ cyc'[k].wrote # cyc[k].wrote =>
               /\ cyc[k].wrote = NoFile
               /\ cyc[k].counted = NoFile
               /\ cyc[k].pc \in {"bcursor", "reset", "pcursor"}
               /\ cyc'[k].pc \in {"counter", "return"}]_vars

\* C35: the poll counter the TypeScript poller has stored never decreases
\* from one cycle to the next, also in a cycle that starts without cursor
\* file while the counter file holds more than 1.
C35_TsCounterNeverDecreases ==
    [][tsPoller'.totalPollCyclesFile >= tsPoller.totalPollCyclesFile]_vars

\* C36: termination by budget: the process of a poller with a duration
\* above 0 has its budget timer set and exits, with the interval cleared,
\* when that duration has elapsed since the timers were set and not
\* before; a poller with duration 0 has no budget timer and keeps its
\* interval.
C36_TerminationByBudget ==
    /\ budget.pc = "exited" =>
          /\ budget.pollDurationMinutes > 0
          /\ budget.intervalAt = NoTimer
          /\ budget.now - budget.armedAt >= budget.pollDurationMinutes * 60
    /\ budget.pc = "polling" =>
          /\ budget.intervalAt # NoTimer
          /\ (budget.timeoutAt # NoTimer) = (budget.pollDurationMinutes > 0)

\* C36, the part that is about what happens eventually: a poller with a
\* duration above 0 exits.
C36_EventuallyExits ==
    <>(budget.pollDurationMinutes > 0 => budget.pc = "exited")

\* C37: in a run with no failing call, no crash and no overlapping cycles,
\* a message is materialized into one turn directory only: no cycle
\* materializes a message that an earlier cycle has materialized.
C37_MaterializedOnce ==
    faults = 0 /\ ~overlapped =>
        \A u \in used : \A v \in used : u.msg = v.msg => u = v

\* C38: the attachment list reported in the acknowledgment holds each
\* attachment part of the message exactly once when no fetch and no write
\* failed, also when the message has no text/plain body and the text/html
\* traversal has run.
C38_AttachmentsListedOnce ==
    extraction.stage = "done" /\ faults = 0 =>
        \A name \in FileNames(extraction.parts) :
            Cardinality({x \in DOMAIN extraction.attachmentDetails :
                            extraction.attachmentDetails[x].filename = name}) = 1

\* C38 without the text/html traversal: the list of a message whose
\* text/plain body was found holds each attachment part exactly once.
C38_ListedOnceWithPlainBody ==
    extraction.stage = "done" /\ faults = 0 /\ ~extraction.htmlRan =>
        \A name \in FileNames(extraction.parts) :
            Cardinality({x \in DOMAIN extraction.attachmentDetails :
                            extraction.attachmentDetails[x].filename = name}) = 1

\* Whether some part of the list, nested parts included, is a text/plain
\* or text/html part with data.
RECURSIVE HasTextPart(_)
HasTextPart(parts) ==
    IF parts = <<>> THEN FALSE
    ELSE \/ Head(parts).mimeType \in {"text/plain", "text/html"}
            /\ Head(parts).data # NoData
         \/ HasTextPart(Head(parts).parts)
         \/ HasTextPart(Tail(parts))

\* Whether the payload itself carries a text body.
HasDirectBody(payload) ==
    payload.mimeType \in {"text/plain", "text/html"} /\ payload.data # NoData

\* C39: the turn directory of a tagged message that carries a non-empty
\* text body holds body_text.txt, when no call failed: also for a
\* single-part message whose payload carries the body data itself and has
\* no parts.
C39_BodySaved ==
    extraction.stage = "done" /\ faults = 0
    /\ (HasTextPart(extraction.parts) \/ HasDirectBody(extraction.payload))
        => extraction.body # NoData

\* C39 for the messages whose body is in a part: body_text.txt holds the
\* body the traversals found.
C39_BodySavedFromParts ==
    extraction.stage = "done" /\ faults = 0 /\ HasTextPart(extraction.parts)
        => extraction.body # NoData /\ extraction.body = extraction.prompt

\* The content hashes of the entries getUniqueAttachments returned.
ListedHashes ==
    {listing.uniqueAttachments[x].hash : x \in DOMAIN listing.uniqueAttachments}

\* C40: every attachment file the poller wrote in a turn directory of the
\* conversation has, in the list getUniqueAttachments returns for the
\* conversation, an entry with the hash of its content (when every file
\* could be read).
C40_WrittenFilesListed ==
    conversation.listed /\ listing.stage = "returned" /\ faults = 0 =>
        \A t \in DOMAIN conversation.turns :
            \A name \in DOMAIN conversation.turns[t] :
                Md5(conversation.turns[t][name]) \in ListedHashes

\* C40 for the folder the listing scans: every file below
\* <conversationId>/attachments/ has an entry with the hash of its
\* content.
C40_ScannedFilesListed ==
    conversation.listed /\ listing.stage = "returned" /\ faults = 0
    /\ conversation.attachments # NoFolder =>
        \A x \in DOMAIN getAllFiles(conversation.attachments, <<>>) :
            Md5(getAllFiles(conversation.attachments, <<>>)[x].content)
                \in ListedHashes

====
